---- MODULE Spec2Model ----
(***************************************************************************)
(* Coven: the loan-covenant tracker's client handlers (App.tsx), its API   *)
(* service (services/apiService.ts) and the REST backend they talk to.     *)
(* The backend's store is part of the state; the client holds a copy of    *)
(* the loans fetched by the last successful loadLoans.                     *)
(***************************************************************************)
EXTENDS Integers, Sequences, FiniteSets, TLC

\* ------------------------------------------------------------- bounds
MaxOps == 2            \* form submissions (covenant, status) in Spec
MaxApplyOps == 2       \* form submissions (covenant, extraction) in ApplySpec
MaxFullOps == 2        \* form submissions (covenant, status, extraction) in FullSpec
MaxScoreCovs == 6      \* covenants of the loan in the score specification
MaxCalls == 2          \* fetchWithAuth invocations in AuthSpec
MaxTimelineOps == 1    \* form submissions in TimelineSpec
MaxFailureOps == 1     \* form submissions in FailureSpec
MaxExplaining == 3     \* explainCovenantRisk calls awaited together
MaxExtractions == 2    \* handleProcessDocument invocations awaiting together
MaxFieldLen == 2       \* characters of a covenant's title in the CSV specification
MaxRiskCovs == 2       \* covenants of the loan in the risk specification
MaxAttempts == 3       \* value at which the wake-up screen's attempt counter saturates

\* ---------------------------------------------------------- constants
\* absent (undefined / null) optional field
NoVal == "undefined"

ComplianceStatus == {"Compliant", "At Risk", "Breached", "Upcoming", "Waived"}

\* the covenant list of the extraction result (one entry per proposed covenant)
ExtractedCovenants == <<"Financial", "Financial", "Reporting", "Reporting", "Negative">>

\* today's date, as `new Date().toISOString().split('T')[0]`
Now == "today"

\* form inputs of the status modal
CurrentValues == {"", "v1"}
WaiverReasons == {"", "r1"}
FileNames == {"doc.pdf"}

\* ------------------------------------------------------------ helpers
Range(s) == {s[i] : i \in 1..Len(s)}

RECURSIVE SeqMap(_, _)
\* s.map(x => F(x))
SeqMap(F(_), s) == IF s = <<>> THEN <<>> ELSE <<F(Head(s))>> \o SeqMap(F, Tail(s))

\* Math.round(a / b) for a >= 0, b > 0 (round half up)
MathRound(a, b) == (2 * a + b) \div (2 * b)

\* the statuses counted as compliant
CompliantEquivalent == {"Compliant", "Waived", "Upcoming"}

CompliantCount(covs) ==
    Cardinality({i \in 1..Len(covs) : covs[i].status \in CompliantEquivalent})

\* the loan's compliance score over its covenant list
ComplianceScore(covs) ==
    IF Len(covs) > 0 THEN MathRound(CompliantCount(covs) * 100, Len(covs)) ELSE 100

\* ------------------------------------------------------- backend store
\* A stored loan: [id, covenants, timelineEvents, loanDNA].
\* A covenant: [id, status, value, waiverReason, waiverDate, waiverApprovedBy].
\* A timeline event: [type, relatedCovenantId] (0: no related covenant).

NewLoan(id) ==
    [id |-> id, covenants |-> <<>>,
     timelineEvents |-> <<[type |-> "Loan Created", relatedCovenantId |-> 0]>>,
     loanDNA |-> FALSE]

LoanIdsOf(store) == {store[i].id : i \in 1..Len(store)}

CovIdsOf(store) ==
    UNION {{store[i].covenants[j].id : j \in 1..Len(store[i].covenants)} : i \in 1..Len(store)}

\* result of a remote call: ok, the error kind thrown, the store afterwards, the body returned
Reply(ok, err, store, data) == [ok |-> ok, err |-> err, store |-> store, data |-> data]

\* ---------------------------------------------------------- REST backend
\* serialized loan as returned by GET /loans/
LoanJson(l) ==
    [id |-> l.id, complianceScore |-> ComplianceScore(l.covenants),
     covenants |-> l.covenants, timelineEvents |-> l.timelineEvents, loanDNA |-> l.loanDNA]

\* PATCH: a field of the body that is present replaces the stored one
Patched(old, new) == IF new = NoVal THEN old ELSE new

PatchedCovenant(c, body) ==
    [id |-> c.id,
     status |-> Patched(c.status, body.status),
     value |-> Patched(c.value, body.value),
     waiverReason |-> Patched(c.waiverReason, body.waiver_reason),
     waiverDate |-> Patched(c.waiverDate, body.waiver_date),
     waiverApprovedBy |-> Patched(c.waiverApprovedBy, body.waiver_approved_by)]

\* GET /loans/
BackendGetLoans(store) == Reply(TRUE, "", store, SeqMap(LoanJson, store))

\* PATCH /covenants/{id}/
BackendPatchCovenant(store, id, body) ==
    IF id \notin CovIdsOf(store)
    THEN Reply(FALSE, "NotFound", store, NoVal)
    ELSE LET upd(c) == IF c.id = id THEN PatchedCovenant(c, body) ELSE c
             updLoan(l) == [l EXCEPT !.covenants = SeqMap(upd, l.covenants)]
         IN  Reply(TRUE, "", SeqMap(updLoan, store), id)

\* POST /covenants/ answering without the identifier of the covenant created
BackendPostCovenantNoId(store, newId, data) ==
    IF data.loan_id \notin LoanIdsOf(store)
    THEN Reply(FALSE, "RemoteFailure", store, NoVal)
    ELSE LET cov == [id |-> newId, status |-> data.status, value |-> NoVal,
                     waiverReason |-> NoVal, waiverDate |-> NoVal,
                     waiverApprovedBy |-> NoVal]
             updLoan(l) == IF l.id = data.loan_id
                           THEN [l EXCEPT !.covenants = Append(l.covenants, cov)]
                           ELSE l
         IN  Reply(TRUE, "", SeqMap(updLoan, store), 0)

\* POST /covenants/
BackendPostCovenant(store, newId, data) ==
    IF data.loan_id \notin LoanIdsOf(store)
    THEN Reply(FALSE, "RemoteFailure", store, NoVal)
    ELSE LET cov == [id |-> newId, status |-> data.status, value |-> NoVal,
                     waiverReason |-> NoVal, waiverDate |-> NoVal,
                     waiverApprovedBy |-> NoVal]
             updLoan(l) == IF l.id = data.loan_id
                           THEN [l EXCEPT !.covenants = Append(l.covenants, cov)]
                           ELSE l
         IN  Reply(TRUE, "", SeqMap(updLoan, store), newId)

\* POST /timeline-events/ putting the newest event first
BackendPostTimelineEventNewestFirst(store, data) ==
    IF data.loan_id \notin LoanIdsOf(store)
    THEN Reply(FALSE, "RemoteFailure", store, NoVal)
    ELSE LET evt == [type |-> data.type, relatedCovenantId |-> data.related_covenant_id]
             updLoan(l) == IF l.id = data.loan_id
                           THEN [l EXCEPT !.timelineEvents = <<evt>> \o l.timelineEvents]
                           ELSE l
         IN  Reply(TRUE, "", SeqMap(updLoan, store), NoVal)

\* POST /timeline-events/
BackendPostTimelineEvent(store, data) ==
    IF data.loan_id \notin LoanIdsOf(store)
    THEN Reply(FALSE, "RemoteFailure", store, NoVal)
    ELSE LET evt == [type |-> data.type, relatedCovenantId |-> data.related_covenant_id]
             updLoan(l) == IF l.id = data.loan_id
                           THEN [l EXCEPT !.timelineEvents = Append(l.timelineEvents, evt)]
                           ELSE l
         IN  Reply(TRUE, "", SeqMap(updLoan, store), NoVal)

\* POST /loan-dna/
BackendPostLoanDNA(store, data) ==
    IF data.loan_id \notin LoanIdsOf(store)
    THEN Reply(FALSE, "RemoteFailure", store, NoVal)
    ELSE LET updLoan(l) == IF l.id = data.loan_id THEN [l EXCEPT !.loanDNA = TRUE] ELSE l
         IN  Reply(TRUE, "", SeqMap(updLoan, store), NoVal)

\* POST /loans/: the loan is stored with its Loan Created event. The facility
\* details of a loan (borrower, amount, currency, rate, dates) are not part of the
\* modelled loan.
BackendPostLoan(store, id) == Reply(TRUE, "", Append(store, NewLoan(id)), id)

\* PATCH /loans/{id}/: the body carries facility details only
BackendPatchLoan(store, id) ==
    IF id \notin LoanIdsOf(store)
    THEN Reply(FALSE, "NotFound", store, NoVal)
    ELSE Reply(TRUE, "", store, id)

\* DELETE /loans/{id}/ (the loan's covenants and timeline go with it)
BackendDeleteLoan(store, id) ==
    IF id \notin LoanIdsOf(store)
    THEN Reply(FALSE, "NotFound", store, NoVal)
    ELSE Reply(TRUE, "", SelectSeq(store, LAMBDA l : l.id # id), NoVal)

\* ----------------------------------------------------------- API service
\* A call whose request fails (network error, 5xx) leaves the store alone;
\* `down` says that this call is the one that fails.
Fetch(down, store, reply) ==
    IF down THEN Reply(FALSE, "RemoteFailure", store, NoVal) ELSE reply

\* each function throws (ok = FALSE) on a response that is not ok
getLoans(store, down) == Fetch(down, store, BackendGetLoans(store))

createCovenant(store, newId, covenantData, down) ==
    Fetch(down, store, BackendPostCovenant(store, newId, covenantData))

updateCovenant(store, id, covenantData, down) ==
    Fetch(down, store, BackendPatchCovenant(store, id, covenantData))

createTimelineEvent(store, eventData, down) ==
    Fetch(down, store, BackendPostTimelineEvent(store, eventData))

createLoanDNA(store, dnaData, down) ==
    Fetch(down, store, BackendPostLoanDNA(store, dnaData))

deleteLoan(store, id, down) ==
    Fetch(down, store, BackendDeleteLoan(store, id))

createLoan(store, id, down) == Fetch(down, store, BackendPostLoan(store, id))

updateLoan(store, id, down) == Fetch(down, store, BackendPatchLoan(store, id))


VARIABLES
    srvLoans,                 \* backend: the stored loans
    nextCovId,                \* backend: next covenant identifier
    loans,                    \* client: loans of the last successful load
    isCovenantModalOpen, targetLoanIdForCovenant,
    isStatusModalOpen, editingCovenant,
    isUploadModalOpen, uploadingFile, uploadProgress, extractedDNA, targetLoanIdForUpload,
    quota,                    \* submissions left: [ops, statusOps, applies]
    handlerResult             \* the last handler run: name, error it logged, whether it threw

VARIABLES
    accessToken, refreshToken, \* API service: the module's tokens (also in localStorage)
    storedUser,                \* localStorage 'user'
    isAuthenticated,           \* App state
    view,                      \* App state
    backendReady,              \* App state
    calls                      \* fetchWithAuth invocations, by call

VARIABLES
    pollPc,                    \* BackendWakeUp: where the current effect's poll is
    wakeStatus,                \* BackendWakeUp state `status`
    attempts,                  \* BackendWakeUp state `attempts`
    backendHealthy             \* whether GET /health/ answers healthy

VARIABLES
    args,                      \* the arguments of the function under study
    result                     \* what it returned

VARIABLES
    applying                   \* handleApplyExtractedData invocations, by click

VARIABLES
    authForm,                  \* AuthView: its `loading` state and the values submitted
    updating,                  \* handleUpdateLoan awaiting: the loan submitted, and `loans`
                               \* of the render that created the handler
    currentUser                \* App: the user shown, NoVal for null

VARIABLES
    selectedCovenant,          \* LoanDetailView: id of the covenant selected, 0 for null
    loadingExplanation,
    aiExplanation,             \* the explanation shown: <<>> for '', <<e>> for e
    explaining,                \* explainCovenantRisk calls awaited, oldest first
    extracting                 \* handleProcessDocument invocations awaiting, oldest first

VARIABLES
    isLoanModalOpen,
    editingLoan,               \* id of the loan being edited, 0 for null
    nextLoanId                 \* backend: identifier of the next loan created

\* the session: tokens, stored user, what App renders, calls in flight
session == <<accessToken, refreshToken, storedUser, isAuthenticated, view, backendReady, calls>>

\* the wake-up screen and the backend it polls
wakeUp == <<pollPc, wakeStatus, attempts, backendHealthy>>

\* a function applied to arguments
pure == <<args, result>>

\* the loan form, and the backend's loan identifiers
loanForm == <<isLoanModalOpen, editingLoan, nextLoanId>>

\* what neither the session nor the wake-up screen touches
\* state local to views
\* the explanation of the covenant selected
explanationPanel == <<selectedCovenant, loadingExplanation, aiExplanation, explaining>>

\* what handlers wait for while the views go on
awaited == <<selectedCovenant, loadingExplanation, aiExplanation, explaining, extracting>>

viewState == <<authForm, updating, currentUser, awaited>>

aside == <<pure, applying, loanForm, viewState>>

\* the state outside covenant monitoring
elsewhere == <<session, wakeUp, aside>>

\* covenant monitoring: the store, the client's loans and its forms
monitoring == <<srvLoans, nextCovId, loans,
                isCovenantModalOpen, targetLoanIdForCovenant,
                isStatusModalOpen, editingCovenant,
                isUploadModalOpen, uploadingFile, uploadProgress, extractedDNA,
                targetLoanIdForUpload, quota, handlerResult>>

vars == <<monitoring, elsewhere>>

\* fetchWithAuth invocations that may be in flight together
CallIds == 1..MaxCalls

\* a fetchWithAuth invocation that has not started. pc: where it is; sent: the
\* Authorization token of each request sent; responses: the status of each response;
\* held: whether a refresh token was held when the first response was examined;
\* refreshes: calls of refreshAccessToken; refreshed: its result; returned: the status
\* of the response returned
NoCall ==
    [pc |-> "idle", sent |-> <<>>, responses |-> <<>>, held |-> FALSE,
     refreshes |-> 0, refreshed |-> "none", returned |-> 0]

\* a session that is not in use: no tokens, landing page
SessionIdle ==
    /\ accessToken = NoVal
    /\ refreshToken = NoVal
    /\ storedUser = NoVal
    /\ isAuthenticated = FALSE
    /\ view = "LANDING"
    /\ backendReady = FALSE
    /\ calls = [c \in CallIds |-> NoCall]

\* the wake-up screen not mounted
WakeUpIdle ==
    /\ pollPc = "none"
    /\ wakeStatus = "checking"
    /\ attempts = 0
    /\ backendHealthy = TRUE

\* no function under study:
\* nothing applied: both are empty, or hold one value
PureIdle == args = <<>> /\ result = <<>>

Args == args[1]

Outcome == result[1]

\* the clicks on Apply to Loan that are told apart
Clicks == {1, 2}

\* a handleApplyExtractedData invocation that has not started. pc: the call it
\* awaits; loanId, covenants: targetLoanIdForUpload and extractedDNA.extractedCovenants
\* of the render in which the button was clicked; k: the loop's current entry
NotApplying == [pc |-> "idle", loanId |-> 0, covenants |-> <<>>, k |-> 0]

ApplyingIdle == applying = [i \in Clicks |-> NotApplying]

\* no loan form; a second loan can be created
LoanFormIdle == isLoanModalOpen = FALSE /\ editingLoan = 0 /\ nextLoanId = 2

\* the authentication form as mounted
AuthFormIdle == authForm = [loading |-> FALSE, credentials |-> NoVal]

\* no covenant selected, nothing awaited
AwaitedIdle ==
    /\ selectedCovenant = 0
    /\ loadingExplanation = FALSE
    /\ aiExplanation = <<>>
    /\ explaining = <<>>
    /\ extracting = <<>>

\* the mount effect sets the current user from the stored one when tokens are held
ViewStateIdle ==
    /\ AuthFormIdle
    /\ updating = <<>>
    /\ currentUser = IF isAuthenticated THEN storedUser ELSE NoVal
    /\ AwaitedIdle

AsideIdle == PureIdle /\ ApplyingIdle /\ LoanFormIdle /\ ViewStateIdle

ElsewhereIdle == SessionIdle /\ WakeUpIdle /\ AsideIdle

covenantModal == <<isCovenantModalOpen, targetLoanIdForCovenant>>
statusModal == <<isStatusModalOpen, editingCovenant>>
uploadModal == <<isUploadModalOpen, uploadingFile, uploadProgress, extractedDNA,
                 targetLoanIdForUpload>>
backend == <<srvLoans, nextCovId>>

NoCovenant ==
    [id |-> 0, status |-> "Upcoming", value |-> NoVal, waiverReason |-> NoVal,
     waiverDate |-> NoVal, waiverApprovedBy |-> NoVal]

\* editingCovenant = null
NoEditing == [loanId |-> 0, covenant |-> NoCovenant]

\* extractedDNA = null
NoDNA == [present |-> FALSE, extractedCovenants |-> <<>>, sourceDocument |-> NoVal]

\* a handler without its catch block: the error leaves the handler
ResultUncaught(op, err) == [op |-> op, err |-> err, threw |-> err # ""]

\* A handler's try/catch logs the error of the call that failed and the handler
\* returns normally; loadLoans logs a failed fetch itself.
Result(op, err) == [op |-> op, err |-> err, threw |-> FALSE]

Logged(r, loadDown) == IF ~r.ok THEN r.err ELSE IF loadDown THEN "LoadFailure" ELSE ""

\* ------------------------------------------------------------- client
LocalLoanIds == {loans[i].id : i \in 1..Len(loans)}

LocalLoan(id) == loans[CHOOSE i \in 1..Len(loans) : loans[i].id = id]

NoModalOpen == ~isCovenantModalOpen /\ ~isStatusModalOpen /\ ~isUploadModalOpen

\* the detail view shows loan `id` of the local list
DetailShown(id) ==
    /\ id \in LocalLoanIds
    /\ NoModalOpen

\* TransformLoan with `complianceScore: loan.complianceScore || 100`
TransformLoanDefaultScore(loan) ==
    [id |-> loan.id,
     complianceScore |-> IF loan.complianceScore = 0 THEN 100 ELSE loan.complianceScore,
     covenants |-> loan.covenants, timelineEvents |-> loan.timelineEvents,
     loanDNA |-> loan.loanDNA]

\* TransformLoan reading the covenants from a field the response does not have
TransformLoanNoCovenants(loan) ==
    [id |-> loan.id, complianceScore |-> loan.complianceScore,
     covenants |-> <<>>, timelineEvents |-> loan.timelineEvents,
     loanDNA |-> loan.loanDNA]

\* loadLoans: one API loan to the client's Loan
TransformLoan(loan) ==
    [id |-> loan.id, complianceScore |-> loan.complianceScore,
     covenants |-> loan.covenants, timelineEvents |-> loan.timelineEvents,
     loanDNA |-> loan.loanDNA]

\* loadLoans: the local list after the call (a failed fetch is logged, the list kept)
LoadedLoans(store, down, old) ==
    LET r == getLoans(store, down)
    IN  IF r.ok THEN SeqMap(TransformLoan, r.data) ELSE old

\* the session in which loans are monitored: logged in with stored tokens
MonitoringSession(v) ==
    /\ accessToken = "stored"
    /\ refreshToken = "stored"
    /\ storedUser = "user"
    /\ isAuthenticated = TRUE
    /\ view = v
    /\ backendReady = TRUE
    /\ calls = [c \in CallIds |-> NoCall]

\* the application in its authenticated views at view `v`, holding the loans
\* `held`, with `q` submissions allowed
ClientInitAt(q, v, held) ==
    /\ loans = held
    /\ isCovenantModalOpen = FALSE
    /\ targetLoanIdForCovenant = 0
    /\ isStatusModalOpen = FALSE
    /\ editingCovenant = NoEditing
    /\ isUploadModalOpen = FALSE
    /\ uploadingFile = NoVal
    /\ uploadProgress = "idle"
    /\ extractedDNA = NoDNA
    /\ targetLoanIdForUpload = 0
    /\ quota = q
    /\ handlerResult = Result("", "")
    /\ MonitoringSession(v)
    /\ WakeUpIdle
    /\ AsideIdle

\* the same at the loan list with no loan loaded yet. The steps from the list to a loan's detail view are
\* not modelled: DetailShown says which loans can be shown.
ClientInit(q) == ClientInitAt(q, "LOAN_LIST", <<>>)

\* mounted over a backend that holds n loans without covenants
InitWith(n, q) ==
    /\ srvLoans = [i \in 1..n |-> NewLoan(i)]
    /\ nextCovId = 1
    /\ ClientInit(q)

\* the effect on isAuthenticated: loadLoans()
loadLoans(down) ==
    /\ NoModalOpen
    /\ loans' = LoadedLoans(srvLoans, down, loans)
    /\ handlerResult' = Result("loadLoans", IF down THEN "LoadFailure" ELSE "")
    /\ UNCHANGED <<elsewhere, backend, covenantModal, statusModal, uploadModal, quota>>

handleDeleteLoan(id, fail) ==
    /\ DetailShown(id)
    /\ LET r == deleteLoan(srvLoans, id, fail = "delete")
       IN  /\ srvLoans' = r.store
           /\ loans' = IF r.ok THEN LoadedLoans(r.store, fail = "load", loans) ELSE loans
           /\ handlerResult' = Result("handleDeleteLoan", Logged(r, fail = "load"))
    /\ view' = "LOAN_LIST"
    /\ UNCHANGED <<nextCovId, covenantModal, statusModal, uploadModal, quota, wakeUp, aside,
                   accessToken, refreshToken, storedUser, isAuthenticated, backendReady,
                   calls>>

\* ---- covenant form
openAddCovenant(loanId) ==
    /\ DetailShown(loanId)
    /\ targetLoanIdForCovenant' = loanId
    /\ isCovenantModalOpen' = TRUE
    /\ handlerResult' = Result("", "")
    /\ UNCHANGED <<elsewhere, backend, loans, statusModal, uploadModal, quota>>

closeCovenantModal ==
    /\ isCovenantModalOpen
    /\ isCovenantModalOpen' = FALSE
    /\ handlerResult' = Result("", "")
    /\ UNCHANGED <<elsewhere, backend, loans, targetLoanIdForCovenant, statusModal,
                   uploadModal, quota>>

handleSaveCovenant(fail) ==
    /\ isCovenantModalOpen
    /\ targetLoanIdForCovenant # 0
    /\ quota.ops > 0
    /\ LET covenantData == [loan_id |-> targetLoanIdForCovenant, status |-> "Upcoming"]
           r1 == createCovenant(srvLoans, nextCovId, covenantData, fail = "covenant")
           eventData == [loan_id |-> targetLoanIdForCovenant, type |-> "Covenant Added",
                         related_covenant_id |-> r1.data]
           r2 == IF r1.ok THEN createTimelineEvent(r1.store, eventData, fail = "event")
                 ELSE r1
       IN  /\ srvLoans' = r2.store
           /\ nextCovId' = IF r1.ok THEN nextCovId + 1 ELSE nextCovId
           /\ loans' = IF r2.ok THEN LoadedLoans(r2.store, fail = "load", loans) ELSE loans
           /\ handlerResult' = Result("handleSaveCovenant", Logged(r2, fail = "load"))
    /\ isCovenantModalOpen' = FALSE
    /\ quota' = [quota EXCEPT !.ops = @ - 1]
    /\ UNCHANGED <<elsewhere, targetLoanIdForCovenant, statusModal, uploadModal>>


\* ---- status form
openUpdateCovenantStatus(loanId, covenant) ==
    /\ DetailShown(loanId)
    /\ covenant \in Range(LocalLoan(loanId).covenants)
    /\ editingCovenant' = [loanId |-> loanId, covenant |-> covenant]
    /\ isStatusModalOpen' = TRUE
    /\ handlerResult' = Result("", "")
    /\ UNCHANGED <<elsewhere, backend, loans, covenantModal, uploadModal, quota>>

closeStatusModal ==
    /\ isStatusModalOpen
    /\ isStatusModalOpen' = FALSE
    /\ editingCovenant' = NoEditing
    /\ handlerResult' = Result("", "")
    /\ UNCHANGED <<elsewhere, backend, loans, covenantModal, uploadModal, quota>>

\* CovenantUpdate with `value: currentValue`
CovenantUpdateValueAlways(newStatus, currentValue, waiverReason) ==
    [status |-> newStatus,
     value |-> currentValue,
     waiver_reason |-> IF newStatus = "Waived" THEN waiverReason ELSE NoVal,
     waiver_date |-> IF newStatus = "Waived" THEN Now ELSE NoVal,
     waiver_approved_by |-> IF newStatus = "Waived" THEN "Admin User" ELSE NoVal]

\* the PATCH body built by handleUpdateCovenantStatus (an undefined field is not sent)
CovenantUpdate(newStatus, currentValue, waiverReason) ==
    [status |-> newStatus,
     value |-> IF currentValue # "" THEN currentValue ELSE NoVal,
     waiver_reason |-> IF newStatus = "Waived" THEN waiverReason ELSE NoVal,
     waiver_date |-> IF newStatus = "Waived" THEN Now ELSE NoVal,
     waiver_approved_by |-> IF newStatus = "Waived" THEN "Admin User" ELSE NoVal]

\* StatusEvent without the distinction of the waiver
StatusEventAlwaysChanged(loanId, covId, newStatus) ==
    [loan_id |-> loanId, type |-> "Status Changed", related_covenant_id |-> covId]

\* the timeline event requested for a status change
StatusEvent(loanId, covId, newStatus) ==
    [loan_id |-> loanId,
     type |-> IF newStatus = "Waived" THEN "Waiver Granted" ELSE "Status Changed",
     related_covenant_id |-> covId]

handleUpdateCovenantStatus(newStatus, currentValue, waiverReason, fail) ==
    /\ isStatusModalOpen
    /\ editingCovenant.loanId # 0
    /\ quota.ops > 0
    /\ quota.statusOps > 0
    /\ LET oldStatus == editingCovenant.covenant.status
           covId == editingCovenant.covenant.id
           r1 == updateCovenant(srvLoans, covId,
                                CovenantUpdate(newStatus, currentValue, waiverReason),
                                fail = "update")
           r2 == IF r1.ok /\ oldStatus # newStatus
                 THEN createTimelineEvent(r1.store,
                          StatusEvent(editingCovenant.loanId, covId, newStatus),
                          fail = "event")
                 ELSE r1
       IN  /\ srvLoans' = r2.store
           /\ loans' = IF r2.ok THEN LoadedLoans(r2.store, fail = "load", loans) ELSE loans
           /\ handlerResult' = Result("handleUpdateCovenantStatus", Logged(r2, fail = "load"))
    /\ isStatusModalOpen' = FALSE
    /\ editingCovenant' = NoEditing
    /\ quota' = [quota EXCEPT !.ops = @ - 1, !.statusOps = @ - 1]
    /\ UNCHANGED <<elsewhere, nextCovId, covenantModal, uploadModal>>

\* ---- document upload
openUploadModal(loanId) ==
    /\ DetailShown(loanId)
    /\ targetLoanIdForUpload' = loanId
    /\ uploadingFile' = NoVal
    /\ uploadProgress' = "idle"
    /\ extractedDNA' = NoDNA
    /\ isUploadModalOpen' = TRUE
    /\ handlerResult' = Result("", "")
    /\ UNCHANGED <<elsewhere, backend, loans, covenantModal, statusModal, quota>>

closeUploadModal ==
    /\ isUploadModalOpen
    /\ isUploadModalOpen' = FALSE
    /\ uploadingFile' = NoVal
    /\ extractedDNA' = NoDNA
    /\ uploadProgress' = "idle"
    /\ handlerResult' = Result("", "")
    /\ UNCHANGED <<elsewhere, backend, loans, covenantModal, statusModal,
                   targetLoanIdForUpload, quota>>

handleFileSelect(file) ==
    /\ isUploadModalOpen
    /\ uploadProgress = "idle"
    /\ uploadingFile' = file
    /\ uploadProgress' = "idle"
    /\ extractedDNA' = NoDNA
    /\ handlerResult' = Result("", "")
    /\ UNCHANGED <<elsewhere, backend, loans, covenantModal, statusModal,
                   isUploadModalOpen, targetLoanIdForUpload, quota>>

\* geminiService: the mock extraction of a document
extractLoanDNA(fileName) ==
    [present |-> TRUE, extractedCovenants |-> ExtractedCovenants, sourceDocument |-> fileName]

handleProcessDocument ==
    /\ isUploadModalOpen
    /\ uploadProgress = "idle"
    /\ uploadingFile # NoVal
    /\ targetLoanIdForUpload # 0
    /\ extractedDNA' = extractLoanDNA(uploadingFile)
    /\ uploadProgress' = "done"
    /\ handlerResult' = Result("", "")
    /\ UNCHANGED <<elsewhere, backend, loans, covenantModal, statusModal,
                   isUploadModalOpen, uploadingFile, targetLoanIdForUpload, quota>>

\* the Re-upload button
reupload ==
    /\ isUploadModalOpen
    /\ uploadProgress = "done"
    /\ uploadProgress' = "idle"
    /\ extractedDNA' = NoDNA
    /\ handlerResult' = Result("", "")
    /\ UNCHANGED <<elsewhere, backend, loans, covenantModal, statusModal,
                   isUploadModalOpen, uploadingFile, targetLoanIdForUpload, quota>>

\* ExtractedCovenantData with the covenant form's target loan in place of the upload's
ExtractedCovenantDataOtherTarget(loanId, ec) ==
    [loan_id |-> targetLoanIdForCovenant, status |-> "Upcoming"]

\* the covenant requested for entry `ec` of the extraction result
ExtractedCovenantData(loanId, ec) ==
    [loan_id |-> loanId, status |-> "Upcoming"]

RECURSIVE CreateExtractedCovenantsCatchEach(_, _, _, _, _)
\* CreateExtractedCovenants with each createCovenant call in a try/catch of its own
CreateExtractedCovenantsCatchEach(store, loanId, newId, i, failAt) ==
    IF i > Len(extractedDNA.extractedCovenants)
    THEN Reply(TRUE, "", store, newId)
    ELSE LET r == createCovenant(store, newId,
                      ExtractedCovenantData(loanId, extractedDNA.extractedCovenants[i]),
                      failAt = i)
         IN  CreateExtractedCovenantsCatchEach(r.store, loanId,
                 IF r.ok THEN newId + 1 ELSE newId, i + 1, failAt)

RECURSIVE CreateExtractedCovenants(_, _, _, _, _)
\* the loop over extractedDNA.extractedCovenants, from entry i on; `failAt` is the
\* entry whose createCovenant call fails (0: none). The first failure ends the loop.
CreateExtractedCovenants(store, loanId, newId, i, failAt) ==
    IF i > Len(extractedDNA.extractedCovenants)
    THEN Reply(TRUE, "", store, newId)
    ELSE LET r == createCovenant(store, newId,
                      ExtractedCovenantData(loanId, extractedDNA.extractedCovenants[i]),
                      failAt = i)
         IN  IF r.ok
             THEN CreateExtractedCovenants(r.store, loanId, newId + 1, i + 1, failAt)
             ELSE Reply(FALSE, r.err, r.store, newId)

\* ApplyEvent with the two events the other way round
ApplyEventAddedFirst(loanId, k) ==
    [loan_id |-> loanId,
     type |-> IF k = 1 THEN "Covenant Added" ELSE "Document Uploaded",
     related_covenant_id |-> 0]

\* the k-th timeline event requested once the covenants are created
ApplyEvent(loanId, k) ==
    [loan_id |-> loanId,
     type |-> IF k = 1 THEN "Document Uploaded" ELSE "Covenant Added",
     related_covenant_id |-> 0]

\* `fail`: the call that fails: "none", "dna", "covenant" (the failCov-th one),
\* "uploaded", "added" or "load"
handleApplyExtractedData(fail, failCov) ==
    /\ isUploadModalOpen
    /\ uploadProgress = "done"
    /\ extractedDNA.present
    /\ targetLoanIdForUpload # 0
    /\ quota.ops > 0
    /\ quota.applies > 0
    /\ fail = "covenant" <=> failCov # 0
    /\ LET loanId == targetLoanIdForUpload
           r1 == createLoanDNA(srvLoans, [loan_id |-> loanId], fail = "dna")
           r2 == IF r1.ok
                 THEN CreateExtractedCovenants(r1.store, loanId, nextCovId, 1, failCov)
                 ELSE Reply(FALSE, r1.err, r1.store, nextCovId)
           r3 == IF r2.ok
                 THEN createTimelineEvent(r2.store, ApplyEvent(loanId, 1), fail = "uploaded")
                 ELSE r2
           r4 == IF r3.ok
                 THEN createTimelineEvent(r3.store, ApplyEvent(loanId, 2), fail = "added")
                 ELSE r3
       IN  /\ srvLoans' = r4.store
           /\ nextCovId' = r2.data
           /\ loans' = IF r4.ok THEN LoadedLoans(r4.store, fail = "load", loans) ELSE loans
           /\ handlerResult' = Result("handleApplyExtractedData", Logged(r4, fail = "load"))
    /\ isUploadModalOpen' = FALSE
    /\ uploadingFile' = NoVal
    /\ extractedDNA' = NoDNA
    /\ uploadProgress' = "idle"
    /\ quota' = [quota EXCEPT !.ops = @ - 1, !.applies = @ - 1]
    /\ UNCHANGED <<elsewhere, covenantModal, statusModal, targetLoanIdForUpload>>

\* ------------------------------------------------------- specification
LoanIds == {1, 2}

\* submissions allowed in all, and among them status changes and extraction applications
Quota(ops, statusOps, applies) ==
    [ops |-> ops, statusOps |-> statusOps, applies |-> applies]

Load == \E down \in BOOLEAN : loadLoans(down)

DeleteLoan ==
    \E id \in LoanIds, fail \in {"none", "delete", "load"} : handleDeleteLoan(id, fail)

CovenantForm ==
    \/ \E id \in LoanIds : openAddCovenant(id)
    \/ closeCovenantModal
    \/ \E fail \in {"none", "covenant", "event", "load"} : handleSaveCovenant(fail)

StatusForm ==
    \/ \E id \in LocalLoanIds : \E c \in Range(LocalLoan(id).covenants) :
           openUpdateCovenantStatus(id, c)
    \/ closeStatusModal
    \/ \E st \in ComplianceStatus, v \in CurrentValues, r \in WaiverReasons,
          fail \in {"none", "update", "event", "load"} :
           handleUpdateCovenantStatus(st, v, r, fail)

UploadForm ==
    \/ \E id \in LoanIds : openUploadModal(id)
    \/ closeUploadModal
    \/ \E f \in FileNames : handleFileSelect(f)
    \/ handleProcessDocument
    \/ reupload
    \/ \E fail \in {"none", "dna", "uploaded", "added", "load"} :
           handleApplyExtractedData(fail, 0)
    \/ \E k \in 1..Len(ExtractedCovenants) : handleApplyExtractedData("covenant", k)

\* a covenant that was added through the form and then set to `status`
MonitoredCovenant(covId, status) ==
    PatchedCovenant([NoCovenant EXCEPT !.id = covId], CovenantUpdate(status, "", "r1"))

\* a loan with one such covenant, and the timeline that monitoring left
MonitoredLoan(id, covId, status) ==
    [id |-> id,
     covenants |-> <<MonitoredCovenant(covId, status)>>,
     timelineEvents |->
         <<[type |-> "Loan Created", relatedCovenantId |-> 0],
           [type |-> "Covenant Added", relatedCovenantId |-> covId]>>
         \o IF status = "Upcoming" THEN <<>>
            ELSE <<[type |-> StatusEvent(id, covId, status).type,
                    relatedCovenantId |-> covId]>>,
     loanDNA |-> FALSE]

\* covenant monitoring of one loan that is monitored already: covenant form, status
\* form (one submission), loan deletion
Init ==
    /\ \E st \in ComplianceStatus : srvLoans = <<MonitoredLoan(1, 1, st)>>
    /\ nextCovId = 2
    /\ ClientInit(Quota(MaxOps, 1, 0))

Next == Load \/ DeleteLoan \/ CovenantForm \/ StatusForm

Spec == Init /\ [][Next]_vars

\* document upload over two loans that are monitored already, the first with a
\* covenant that is At Risk or Waived
ApplyInit ==
    /\ \E st \in {"At Risk", "Waived"} :
           srvLoans = <<MonitoredLoan(1, 1, st), MonitoredLoan(2, 2, "Upcoming")>>
    /\ nextCovId = 3
    /\ ClientInit(Quota(MaxApplyOps, 0, 1))

ApplyNext == Load \/ CovenantForm \/ UploadForm

ApplySpec == ApplyInit /\ [][ApplyNext]_vars

\* every form over one loan
FullInit == InitWith(1, Quota(MaxFullOps, 1, 1))

FullNext == Load \/ DeleteLoan \/ CovenantForm \/ StatusForm \/ UploadForm

FullSpec == FullInit /\ [][FullNext]_vars

\* the score of one loan, over every covenant list of up to MaxScoreCovs covenants
StatusLists == UNION {[1..n -> ComplianceStatus] : n \in 0..MaxScoreCovs}

ScoreInit ==
    /\ \E sts \in StatusLists :
           srvLoans = <<[NewLoan(1) EXCEPT
                           !.covenants = [i \in 1..Len(sts) |-> MonitoredCovenant(i, sts[i])]]>>
    /\ nextCovId = MaxScoreCovs + 1
    /\ ClientInit(Quota(0, 0, 0))

ScoreNext == Load

ScoreSpec == ScoreInit /\ [][ScoreNext]_vars

\* ------------------------------------------- extraction applied, by steps
\* The Apply to Loan button stays enabled while handleApplyExtractedData awaits its
\* calls: each click starts an invocation, which runs from await to await.

\* the invocation's continuation after the try/catch: the modal is closed
applyFinished(i, err) ==
    /\ applying' = [applying EXCEPT ![i].pc = "done"]
    /\ isUploadModalOpen' = FALSE
    /\ uploadingFile' = NoVal
    /\ extractedDNA' = NoDNA
    /\ uploadProgress' = "idle"
    /\ handlerResult' = Result("handleApplyExtractedData", err)
    /\ UNCHANGED targetLoanIdForUpload

\* a click on Apply to Loan: the invocation runs up to its first await
applyClicked(i) ==
    /\ isUploadModalOpen
    /\ uploadProgress = "done"
    /\ extractedDNA.present
    /\ targetLoanIdForUpload # 0
    /\ applying[i].pc = "idle"
    /\ applying' = [applying EXCEPT ![i] =
           [pc |-> "dna", loanId |-> targetLoanIdForUpload,
            covenants |-> extractedDNA.extractedCovenants, k |-> 1]]
    /\ UNCHANGED <<monitoring, session, wakeUp, pure, loanForm, viewState>>

\* the call that invocation i awaits completes (`down`: it fails) and the invocation
\* runs up to its next await, or to its end
applyResumed(i, down) ==
    LET a == applying[i]
        r == CASE a.pc = "dna" -> createLoanDNA(srvLoans, [loan_id |-> a.loanId], down)
               [] a.pc = "covenant" ->
                    createCovenant(srvLoans, nextCovId,
                                   ExtractedCovenantData(a.loanId, a.covenants[a.k]), down)
               [] a.pc = "uploaded" ->
                    createTimelineEvent(srvLoans, ApplyEvent(a.loanId, 1), down)
               [] a.pc = "added" ->
                    createTimelineEvent(srvLoans, ApplyEvent(a.loanId, 2), down)
               [] OTHER -> Reply(TRUE, "", srvLoans, NoVal)
    IN  /\ a.pc \in {"dna", "covenant", "uploaded", "added", "load"}
        /\ srvLoans' = r.store
        /\ nextCovId' = IF a.pc = "covenant" /\ r.ok THEN nextCovId + 1 ELSE nextCovId
        /\ IF ~r.ok
           THEN applyFinished(i, r.err) /\ UNCHANGED loans
           ELSE CASE a.pc = "dna" ->
                       /\ applying' = [applying EXCEPT ![i].pc =
                              IF Len(a.covenants) > 0 THEN "covenant" ELSE "uploaded"]
                       /\ UNCHANGED <<loans, uploadModal, handlerResult>>
                  [] a.pc = "covenant" ->
                       /\ applying' = [applying EXCEPT ![i] =
                              IF a.k < Len(a.covenants)
                              THEN [a EXCEPT !.k = a.k + 1]
                              ELSE [a EXCEPT !.pc = "uploaded"]]
                       /\ UNCHANGED <<loans, uploadModal, handlerResult>>
                  [] a.pc = "uploaded" ->
                       /\ applying' = [applying EXCEPT ![i].pc = "added"]
                       /\ UNCHANGED <<loans, uploadModal, handlerResult>>
                  [] a.pc = "added" ->
                       /\ applying' = [applying EXCEPT ![i].pc = "load"]
                       /\ UNCHANGED <<loans, uploadModal, handlerResult>>
                  [] OTHER ->
                       /\ loans' = LoadedLoans(srvLoans, down, loans)
                       /\ applyFinished(i, IF down THEN "LoadFailure" ELSE "")
        /\ UNCHANGED <<covenantModal, statusModal, quota, session, wakeUp, pure, loanForm, viewState>>

\* the upload modal, with the Apply to Loan button as the browser offers it
InFlightInit == InitWith(1, Quota(0, 0, 0))

ApplyClick == \E i \in Clicks : applyClicked(i)

ApplyResume == \E i \in Clicks, down \in BOOLEAN : applyResumed(i, down)

InFlightNext ==
    \/ Load
    \/ \E id \in LoanIds : openUploadModal(id)
    \/ closeUploadModal
    \/ \E f \in FileNames : handleFileSelect(f)
    \/ handleProcessDocument
    \/ reupload
    \/ ApplyClick
    \/ ApplyResume

InFlightSpec == InFlightInit /\ [][InFlightNext]_vars

\* ------------------------------------------------- status of a valued covenant
\* values a covenant holds before the status form is submitted
PriorValues == {NoVal, "v0"}

\* one loan whose covenant was monitored, with or without a value reported
ValueInit ==
    /\ \E st \in ComplianceStatus, v \in PriorValues :
           srvLoans = <<[MonitoredLoan(1, 1, st) EXCEPT !.covenants[1].value = v]>>
    /\ nextCovId = 2
    /\ ClientInit(Quota(MaxOps, 1, 0))

ValueNext == Load \/ StatusForm

ValueSpec == ValueInit /\ [][ValueNext]_vars

\* ---------------------------------------------------------------- loan form
openAddLoan ==
    /\ NoModalOpen
    /\ ~isLoanModalOpen
    /\ editingLoan' = 0
    /\ isLoanModalOpen' = TRUE
    /\ UNCHANGED <<monitoring, session, wakeUp, pure, applying, nextLoanId, viewState>>

openEditLoan(id) ==
    /\ DetailShown(id)
    /\ ~isLoanModalOpen
    /\ editingLoan' = id
    /\ isLoanModalOpen' = TRUE
    /\ UNCHANGED <<monitoring, session, wakeUp, pure, applying, nextLoanId, viewState>>

closeLoanModal ==
    /\ isLoanModalOpen
    /\ isLoanModalOpen' = FALSE
    /\ UNCHANGED <<monitoring, session, wakeUp, pure, applying, editingLoan, nextLoanId, viewState>>

\* the event of a loan's creation requested once more
AmendmentEventAsCreation(loanId) ==
    [loan_id |-> loanId, type |-> "Loan Created", related_covenant_id |-> 0]

\* the event requested after a loan was updated
AmendmentEvent(loanId) ==
    [loan_id |-> loanId, type |-> "Amendment Made", related_covenant_id |-> 0]

\* `fail`: the call that fails: "none", "loan", "event" or "load"
handleSaveLoan(fail) ==
    /\ isLoanModalOpen
    /\ quota.ops > 0
    /\ editingLoan = 0 => nextLoanId \in LoanIds
    /\ LET r1 == IF editingLoan # 0
                 THEN updateLoan(srvLoans, editingLoan, fail = "loan")
                 ELSE createLoan(srvLoans, nextLoanId, fail = "loan")
           r2 == IF r1.ok /\ editingLoan # 0
                 THEN createTimelineEvent(r1.store, AmendmentEvent(editingLoan),
                                          fail = "event")
                 ELSE r1
       IN  /\ srvLoans' = r2.store
           /\ nextLoanId' = IF editingLoan = 0 /\ r1.ok THEN nextLoanId + 1 ELSE nextLoanId
           /\ loans' = IF r2.ok THEN LoadedLoans(r2.store, fail = "load", loans) ELSE loans
           /\ handlerResult' = Result("handleSaveLoan", Logged(r2, fail = "load"))
    /\ isLoanModalOpen' = FALSE
    /\ editingLoan' = 0
    /\ quota' = [quota EXCEPT !.ops = @ - 1]
    /\ UNCHANGED <<nextCovId, covenantModal, statusModal, uploadModal, session, wakeUp,
                   pure, applying, viewState>>

LoanForm ==
    \/ openAddLoan
    \/ \E id \in LoanIds : openEditLoan(id)
    \/ closeLoanModal
    \/ \E fail \in {"none", "loan", "event", "load"} : handleSaveLoan(fail)

\* every operation on loans, covenants and timelines, on a loan with a history
TimelineInit ==
    /\ srvLoans = <<MonitoredLoan(1, 1, "At Risk")>>
    /\ nextCovId = 2
    /\ ClientInit(Quota(MaxTimelineOps, 1, 1))

TimelineNext == FullNext \/ LoanForm

TimelineSpec == TimelineInit /\ [][TimelineNext]_vars

\* ------------------------------------------------- failures in handlers
\* the forms submitted from the detail view of a loan with a history, loaded
\* when the application was mounted; the handlers reload the list themselves
FailureInit ==
    /\ srvLoans = <<MonitoredLoan(1, 1, "At Risk")>>
    /\ nextCovId = 2
    /\ ClientInitAt(Quota(MaxFailureOps, 1, 1), "LOAN_DETAIL",
                    LoadedLoans(<<MonitoredLoan(1, 1, "At Risk")>>, FALSE, <<>>))

FailureNext == DeleteLoan \/ CovenantForm \/ StatusForm \/ UploadForm \/ LoanForm

FailureSpec == FailureInit /\ [][FailureNext]_vars

\* ------------------------------------------------------------ loan update
\* scores a submitted loan carries
SubmittedScores == {55}

\* loans.map(l => l.id === updatedLoan.id ? updatedLoan : l) with the submitted
\* loan put at the end
MergedLoanLast(list, updatedLoan) ==
    SelectSeq(list, LAMBDA l : l.id # updatedLoan.id) \o <<updatedLoan>>

\* loans.map(l => l.id === updatedLoan.id ? updatedLoan : l)
MergedLoan(list, updatedLoan) ==
    [i \in 1..Len(list) |-> IF list[i].id = updatedLoan.id THEN updatedLoan ELSE list[i]]

\* handleUpdateLoan up to its await: the request is sent
handleUpdateLoan(updatedLoan) ==
    /\ updating = <<>>
    /\ DetailShown(updatedLoan.id)
    /\ updating' = <<[loan |-> updatedLoan, loans |-> loans]>>
    /\ handlerResult' = Result("", "")
    /\ UNCHANGED <<backend, loans, covenantModal, statusModal, uploadModal, quota,
                   session, wakeUp, pure, applying, loanForm, authForm, currentUser,
                   awaited>>

\* the request is answered: loadLoans after a success (`loadDown`: its fetch
\* fails), the merge into the handler's `loans` after a failure
updateLoanAnswered(down, loadDown) ==
    /\ updating # <<>>
    /\ down => ~loadDown
    /\ LET r == updateLoan(srvLoans, updating[1].loan.id, down)
       IN  /\ srvLoans' = r.store
           /\ loans' = IF r.ok
                       THEN LoadedLoans(r.store, loadDown, loans)
                       ELSE MergedLoan(updating[1].loans, updating[1].loan)
           /\ handlerResult' = Result("handleUpdateLoan", Logged(r, loadDown))
    /\ updating' = <<>>
    /\ UNCHANGED <<nextCovId, covenantModal, statusModal, uploadModal, quota,
                   session, wakeUp, pure, applying, loanForm, authForm, currentUser,
                   awaited>>

UpdateInit == InitWith(2, Quota(0, 0, 0))

UpdateLoan ==
    \/ \E id \in LoanIds, score \in SubmittedScores :
           /\ id \in LocalLoanIds
           /\ handleUpdateLoan([LocalLoan(id) EXCEPT !.complianceScore = score])
    \/ \E down \in BOOLEAN, loadDown \in BOOLEAN : updateLoanAnswered(down, loadDown)

UpdateNext == Load \/ DeleteLoan \/ UpdateLoan

UpdateSpec == UpdateInit /\ [][UpdateNext]_vars

\* ------------------------------------------------------------ session
\* statuses of a response
Statuses401 == {200, 401, 500}

\* setTokens(access, refresh)
setTokens(access, refresh) ==
    /\ accessToken' = access
    /\ refreshToken' = refresh

\* clearTokens(): both tokens and the stored user
clearTokens ==
    /\ accessToken' = NoVal
    /\ refreshToken' = NoVal
    /\ storedUser' = NoVal

\* loadUserProfile: the current user is set from the stored one, if any
loadUserProfile == currentUser' = IF storedUser # NoVal THEN storedUser ELSE currentUser

\* ShouldRefresh whatever refresh token is held
ShouldRefreshOn401(status, token) == status = 401

\* fetchWithAuth: the condition under which the token is refreshed
ShouldRefresh(status, token) == status = 401 /\ token # NoVal

\* a render that looks at the authentication flag before anything else
RenderedAuthenticatedFirst ==
    IF isAuthenticated THEN "Authenticated"
    ELSE IF view = "LANDING" THEN "LandingView"
    ELSE IF ~backendReady THEN "BackendWakeUp" ELSE "AuthView"

\* App's return: the component rendered
Rendered ==
    IF view = "LANDING" THEN "LandingView"
    ELSE IF ~backendReady THEN "BackendWakeUp"
    ELSE IF ~isAuthenticated THEN "AuthView"
    ELSE "Authenticated"

\* what App renders
ShowsLanding == view = "LANDING"
ShowsWakeUp == view # "LANDING" /\ ~backendReady
ShowsAuthView == view # "LANDING" /\ backendReady /\ ~isAuthenticated
ShowsAuthenticatedViews == view # "LANDING" /\ backendReady /\ isAuthenticated

\* BackendWakeUp's effect runs: pollHealth() is called
pollStarted ==
    /\ pollPc' = "checking"
    /\ UNCHANGED <<wakeStatus, attempts, backendHealthy>>

\* BackendWakeUp is mounted, with its initial state
wakeUpMounted ==
    /\ pollPc' = "checking"
    /\ wakeStatus' = "checking"
    /\ attempts' = 0
    /\ UNCHANGED backendHealthy

\* the caller of a fetchWithAuth call that returned sets App state (loadLoans:
\* setLoans, setIsLoading), so App renders again; a BackendWakeUp that is shown gets
\* a new onReady function, so its effect is cleaned up (isMounted = false, the retry
\* timer cleared) and runs again
appRendered(returned) ==
    IF returned /\ ShowsWakeUp THEN pollStarted ELSE UNCHANGED wakeUp

\* fetchWithAuth up to its first fetch: the Authorization header carries the access token
fetchWithAuth(c) ==
    /\ calls[c].pc = "idle"
    /\ calls' = [calls EXCEPT ![c] = [@ EXCEPT !.pc = "first", !.sent = <<accessToken>>]]

\* an API call made from the authenticated views
apiCall(c) ==
    /\ ShowsAuthenticatedViews
    /\ fetchWithAuth(c)
    /\ UNCHANGED <<monitoring, wakeUp, aside, accessToken, refreshToken, storedUser, isAuthenticated,
                   view, backendReady>>

\* the first response arrives: refreshAccessToken is called, or the response returned
firstResponse(c, status) ==
    /\ calls[c].pc = "first"
    /\ calls' = [calls EXCEPT ![c] =
           IF ShouldRefresh(status, refreshToken)
           THEN [@ EXCEPT !.pc = "refreshing", !.responses = <<status>>,
                          !.held = refreshToken # NoVal, !.refreshes = @ + 1]
           ELSE [@ EXCEPT !.pc = "returned", !.responses = <<status>>,
                          !.held = refreshToken # NoVal, !.returned = status]]
    /\ appRendered(calls'[c].pc = "returned")
    /\ UNCHANGED <<monitoring, aside, accessToken, refreshToken, storedUser, isAuthenticated,
                   view, backendReady>>

\* refreshAccessToken's request is answered (ok: 2xx with a new access token and,
\* if `rotated`, a new refresh token; otherwise a non-2xx status or a network error);
\* after a successful refresh the request is sent again with the new token
refreshResponse(c, ok, rotated) ==
    /\ calls[c].pc = "refreshing"
    /\ IF ok
       THEN /\ setTokens("refreshed", IF rotated THEN "rotated" ELSE refreshToken)
            /\ calls' = [calls EXCEPT ![c] =
                   [@ EXCEPT !.pc = "second", !.refreshed = "ok",
                             !.sent = Append(@, "refreshed")]]
            /\ UNCHANGED storedUser
       ELSE /\ clearTokens
            /\ calls' = [calls EXCEPT ![c] =
                   [@ EXCEPT !.pc = "returned", !.refreshed = "failed",
                             !.returned = calls[c].responses[1]]]
    /\ appRendered(calls'[c].pc = "returned")
    /\ UNCHANGED <<monitoring, aside, isAuthenticated, view, backendReady>>

\* the response to the request sent again is returned
secondResponse(c, status) ==
    /\ calls[c].pc = "second"
    /\ calls' = [calls EXCEPT ![c] =
           [@ EXCEPT !.pc = "returned", !.responses = Append(@, status),
                     !.returned = status]]
    /\ appRendered(calls'[c].pc = "returned")
    /\ UNCHANGED <<monitoring, aside, accessToken, refreshToken, storedUser, isAuthenticated,
                   view, backendReady>>

\* LandingView.onEnter
onEnter ==
    /\ ShowsLanding
    /\ view' = "AUTH"
    /\ IF ~backendReady THEN wakeUpMounted ELSE UNCHANGED wakeUp
    /\ UNCHANGED <<monitoring, aside, accessToken, refreshToken, storedUser, isAuthenticated,
                   backendReady, calls>>

\* AuthView.onLogin: no request is made to log in; loadLoans starts call c
handleLogin(c) ==
    /\ ShowsAuthView
    /\ isAuthenticated' = TRUE
    /\ view' = "DASHBOARD"
    /\ fetchWithAuth(c)
    /\ loadUserProfile
    /\ UNCHANGED <<monitoring, wakeUp, pure, applying, loanForm, authForm, updating, awaited,
                   accessToken, refreshToken, storedUser, backendReady>>

handleLogout ==
    /\ ShowsAuthenticatedViews
    /\ clearTokens
    /\ isAuthenticated' = FALSE
    /\ loans' = <<>>
    /\ currentUser' = NoVal
    /\ view' = "AUTH"
    /\ UNCHANGED <<backend, covenantModal, statusModal, uploadModal, quota, handlerResult,
                   wakeUp, pure, applying, loanForm, authForm, updating, awaited, backendReady,
                   calls>>

\* covenant monitoring at rest
MonitoringIdle ==
    /\ srvLoans = <<>>
    /\ nextCovId = 1
    /\ loans = <<>>
    /\ isCovenantModalOpen = FALSE
    /\ targetLoanIdForCovenant = 0
    /\ isStatusModalOpen = FALSE
    /\ editingCovenant = NoEditing
    /\ isUploadModalOpen = FALSE
    /\ uploadingFile = NoVal
    /\ uploadProgress = "idle"
    /\ extractedDNA = NoDNA
    /\ targetLoanIdForUpload = 0
    /\ quota = Quota(0, 0, 0)
    /\ handlerResult = Result("", "")

\* the application once the backend is awake, mounted over whatever localStorage
\* holds: with an access token the authenticated views are shown and loadLoans has
\* started call 1; without, the landing page
AuthInit ==
    /\ MonitoringIdle
    /\ WakeUpIdle
    /\ accessToken \in {NoVal, "stored"}
    /\ refreshToken \in {NoVal, "stored"}
    /\ storedUser \in {NoVal, "user"}
    /\ isAuthenticated = (accessToken # NoVal)
    /\ view = IF accessToken # NoVal THEN "DASHBOARD" ELSE "LANDING"
    /\ backendReady = TRUE
    /\ calls = [c \in CallIds |->
                  IF c = 1 /\ accessToken # NoVal
                  THEN [NoCall EXCEPT !.pc = "first", !.sent = <<accessToken>>]
                  ELSE NoCall]
    /\ AsideIdle

AuthNext ==
    \/ onEnter
    \/ \E c \in CallIds : handleLogin(c)
    \/ handleLogout
    \/ \E c \in CallIds : apiCall(c)
    \/ \E c \in CallIds, status \in Statuses401 : firstResponse(c, status)
    \/ \E c \in CallIds, ok \in BOOLEAN, rotated \in BOOLEAN : refreshResponse(c, ok, rotated)
    \/ \E c \in CallIds, status \in Statuses401 : secondResponse(c, status)

AuthSpec == AuthInit /\ [][AuthNext]_vars

\* ------------------------------------------------------- load and logout
\* loadLoans after its await: the fetchWithAuth call `c` of fetchLoans has
\* returned; setLoans with the loans fetched when the response was ok, the error
\* logged otherwise
loansFetched(c) ==
    /\ calls[c].pc = "returned"
    /\ calls' = [calls EXCEPT ![c] = [@ EXCEPT !.pc = "done"]]
    /\ loans' = LoadedLoans(srvLoans, calls[c].returned # 200, loans)
    /\ UNCHANGED <<backend, covenantModal, statusModal, uploadModal, quota, handlerResult,
                   wakeUp, aside, accessToken, refreshToken, storedUser, isAuthenticated,
                   view, backendReady>>

\* the application mounted with stored tokens over a backend that holds a loan;
\* every call is loadLoans' (the effect on isAuthenticated, handleLogin)
LogoutInit ==
    /\ srvLoans = <<NewLoan(1)>>
    /\ nextCovId = 1
    /\ ClientInitAt(Quota(0, 0, 0), "DASHBOARD", <<>>)

LogoutNext ==
    \/ \E c \in CallIds : handleLogin(c)
    \/ handleLogout
    \/ \E c \in CallIds : apiCall(c)
    \/ \E c \in CallIds, status \in Statuses401 : firstResponse(c, status)
    \/ \E c \in CallIds, ok \in BOOLEAN, rotated \in BOOLEAN : refreshResponse(c, ok, rotated)
    \/ \E c \in CallIds, status \in Statuses401 : secondResponse(c, status)
    \/ \E c \in CallIds : loansFetched(c)

LogoutSpec == LogoutInit /\ [][LogoutNext]_vars

\* ------------------------------------------------------ authentication form
\* what is typed into the form (its fields are required: they are not empty)
Credentials == {"admin@coven.fi", "nobody", "x"}

\* a form whose timer calls onLogin for one pair of credentials only
CredentialsKnown(credentials) == credentials = "admin@coven.fi"

\* AuthView.handleSubmit's timer calls onLogin without looking at the values
CredentialsAccepted(credentials) == TRUE

\* AuthView.handleSubmit: the button is disabled while `loading`. A call slot is
\* kept free for the loads that the login starts.
handleSubmit(credentials) ==
    /\ ShowsAuthView
    /\ ~authForm.loading
    /\ \E c \in CallIds : calls[c].pc = "idle"
    /\ authForm' = [loading |-> TRUE, credentials |-> credentials]
    /\ UNCHANGED <<monitoring, session, wakeUp, pure, applying, loanForm, updating,
                   currentUser, awaited>>

\* the timer of handleSubmit fires: setLoading(false); onLogin(), which is
\* App.handleLogin; loadLoans starts call c
loginTimer(c) ==
    /\ authForm.loading
    /\ authForm' = [authForm EXCEPT !.loading = FALSE]
    /\ IF CredentialsAccepted(authForm.credentials)
       THEN /\ isAuthenticated' = TRUE
            /\ view' = "DASHBOARD"
            /\ fetchWithAuth(c)
            /\ loadUserProfile
       ELSE UNCHANGED <<isAuthenticated, view, calls, currentUser>>
    /\ UNCHANGED <<monitoring, wakeUp, pure, applying, loanForm, updating, awaited, accessToken,
                   refreshToken, storedUser, backendReady>>

LoginInit ==
    /\ MonitoringIdle
    /\ WakeUpIdle
    /\ accessToken = NoVal
    /\ refreshToken = NoVal
    /\ storedUser = NoVal
    /\ isAuthenticated = FALSE
    /\ view = "LANDING"
    /\ backendReady = TRUE
    /\ calls = [c \in CallIds |-> NoCall]
    /\ AsideIdle

LoginTimer == \E c \in CallIds : loginTimer(c)

LoginNext ==
    \/ onEnter
    \/ \E credentials \in Credentials : handleSubmit(credentials)
    \/ LoginTimer
    \/ handleLogout
    \/ \E c \in CallIds : apiCall(c)
    \/ \E c \in CallIds, status \in Statuses401 : firstResponse(c, status)

\* timers fire
LoginSpec == LoginInit /\ [][LoginNext]_vars /\ WF_vars(LoginTimer)

\* ------------------------------------------------------ backend wake-up
\* checkBackendHealth: true only for a 2xx answer with status 'healthy'; an unhealthy
\* answer, an error and the timeout's abort all give false
checkBackendHealth(answer) == answer = "healthy"

\* what the backend's health endpoint can answer
HealthAnswers ==
    IF backendHealthy THEN {"healthy"} ELSE {"unhealthy", "error", "timeout"}

Min(a, b) == IF a < b THEN a ELSE b

\* pollHealth after checkHealth() resolved, in the current effect (isMounted)
pollHealth(answer) ==
    /\ ShowsWakeUp
    /\ pollPc = "checking"
    /\ answer \in HealthAnswers
    /\ IF checkBackendHealth(answer)
       THEN /\ wakeStatus' = "ready"
            /\ pollPc' = "readyTimer"
            /\ UNCHANGED attempts
       ELSE /\ wakeStatus' = "waking"
            /\ attempts' = Min(attempts + 1, MaxAttempts)
            /\ pollPc' = "retryTimer"
    /\ UNCHANGED <<monitoring, session, aside, backendHealthy>>

\* setTimeout(pollHealth, 3000) fires
retryTimer ==
    /\ ShowsWakeUp
    /\ pollPc = "retryTimer"
    /\ pollStarted
    /\ UNCHANGED <<monitoring, session, aside>>

\* the timer set after a healthy check fires in the current effect: onReady();
\* App stops rendering BackendWakeUp
readyTimer ==
    /\ ShowsWakeUp
    /\ pollPc = "readyTimer"
    /\ backendReady' = TRUE
    /\ pollPc' = "none"
    /\ UNCHANGED <<monitoring, aside, accessToken, refreshToken, storedUser, isAuthenticated,
                   view, calls, wakeStatus, attempts, backendHealthy>>

\* the backend has woken up: from now on its health endpoint answers healthy
backendWakes ==
    /\ ~backendHealthy
    /\ backendHealthy' = TRUE
    /\ UNCHANGED <<monitoring, session, aside, pollPc, wakeStatus, attempts>>

\* the application as mounted over whatever localStorage holds, the backend asleep
\* or awake: with an access token the wake-up screen is shown at once and loadLoans
\* has started call 1; without, the landing page
WakeUpInit ==
    /\ MonitoringIdle
    /\ accessToken \in {NoVal, "stored"}
    /\ refreshToken \in {NoVal, "stored"}
    /\ storedUser \in {NoVal, "user"}
    /\ isAuthenticated = (accessToken # NoVal)
    /\ view = IF accessToken # NoVal THEN "DASHBOARD" ELSE "LANDING"
    /\ backendReady = FALSE
    /\ calls = [c \in CallIds |->
                  IF c = 1 /\ accessToken # NoVal
                  THEN [NoCall EXCEPT !.pc = "first", !.sent = <<accessToken>>]
                  ELSE NoCall]
    /\ pollPc = IF accessToken # NoVal THEN "checking" ELSE "none"
    /\ wakeStatus = "checking"
    /\ attempts = 0
    /\ backendHealthy \in BOOLEAN
    /\ AsideIdle

Poll ==
    \/ \E answer \in {"healthy", "unhealthy", "error", "timeout"} : pollHealth(answer)
    \/ retryTimer
    \/ readyTimer

WakeUpNext ==
    \/ onEnter
    \/ Poll
    \/ backendWakes
    \/ \E c \in CallIds, status \in Statuses401 : firstResponse(c, status)
    \/ \E c \in CallIds, ok \in BOOLEAN, rotated \in BOOLEAN : refreshResponse(c, ok, rotated)
    \/ \E c \in CallIds, status \in Statuses401 : secondResponse(c, status)

\* timers fire and requests are answered: the poll's steps are weakly fair
WakeUpSpec == WakeUpInit /\ [][WakeUpNext]_vars /\ WF_vars(Poll)

\* ------------------------------------------------- REST operations, one by one
\* the operations of the API service on loans, covenants, timeline events, loan DNA,
\* risk predictions, the profile, the dashboard and documents
RestOps ==
    {"getProfile", "updateProfile", "getLoans", "getLoan", "createLoan", "updateLoan",
     "deleteLoan", "getCovenants", "createCovenant", "updateCovenant",
     "createTimelineEvent", "getDashboardStats", "uploadDocument",
     "createRiskPrediction", "createLoanDNA"}

\* those that read the error's detail from the body of a response that is not ok
ReadsErrorBody ==
    {"createLoan", "updateLoan", "createCovenant", "updateCovenant",
     "createTimelineEvent", "uploadDocument", "createRiskPrediction", "createLoanDNA"}

\* uploadDocument calls fetch itself, the others go through fetchWithAuth
UsesFetchWithAuth == RestOps \ {"uploadDocument"}

\* statuses a request is answered with
RestStatuses == {200, 204, 400, 401, 500}

\* Response.ok
ResponseOk(status) == status \in 200..299

\* a response: its status, and whether its body is JSON
Response(status, json) == [status |-> status, json |-> json]

\* the response an operation gets: from fetchWithAuth the second response when the
\* first was a 401, a refresh token was held and the refresh succeeded
ResponseGot(op, first, token, refreshed, second) ==
    IF op \in UsesFetchWithAuth /\ ShouldRefresh(first.status, token) /\ refreshed
    THEN second
    ELSE first

Thrown(error) == [threw |-> TRUE, error |-> error, value |-> NoVal]

Returned(value) == [threw |-> FALSE, error |-> NoVal, value |-> value]

\* an operation that returns the body whatever the response's status
RestOperationUnchecked(op, response) ==
    IF response.json THEN Returned("body") ELSE Thrown("SyntaxError")

\* the operation from the response on: `if (!response.ok) throw`, then the body
\* (response.json() rejects when the body is not JSON; deleteLoan returns true)
RestOperation(op, response) ==
    IF ~ResponseOk(response.status)
    THEN IF op \in ReadsErrorBody /\ ~response.json
         THEN Thrown("SyntaxError")
         ELSE Thrown("Error")
    ELSE IF op = "deleteLoan"
         THEN Returned("true")
         ELSE IF response.json THEN Returned("body") ELSE Thrown("SyntaxError")

RestIdle ==
    /\ MonitoringIdle
    /\ WakeUpIdle
    /\ ApplyingIdle
    /\ LoanFormIdle
    /\ isAuthenticated = TRUE
    /\ view = "DASHBOARD"
    /\ backendReady = TRUE
    /\ calls = [c \in CallIds |-> NoCall]
    /\ accessToken = "stored"
    /\ storedUser = "user"
    /\ ViewStateIdle

RestInit ==
    /\ RestIdle
    /\ refreshToken \in {NoVal, "stored"}
    /\ PureIdle

\* an operation is called and its requests are answered
restCalled(op, first, refreshed, second) ==
    /\ args = <<>>
    /\ args' = <<[op |-> op, first |-> first, token |-> refreshToken,
                refreshed |-> refreshed, second |-> second,
                response |-> ResponseGot(op, first, refreshToken, refreshed, second)]>>
    /\ UNCHANGED <<monitoring, session, wakeUp, applying, loanForm, result, viewState>>

\* the operation completes; updateProfile stores the user it returns
restCompleted ==
    /\ args # <<>>
    /\ result = <<>>
    /\ result' = <<RestOperation(Args.op, Args.response)>>
    /\ storedUser' = IF Args.op = "updateProfile" /\ ~result'[1].threw
                     THEN "updated" ELSE storedUser
    /\ UNCHANGED <<monitoring, wakeUp, applying, loanForm, args, accessToken,
                   refreshToken, isAuthenticated, view, backendReady, calls, viewState>>

\* the caller moves on
restForgotten ==
    /\ result # <<>>
    /\ args' = <<>>
    /\ result' = <<>>
    /\ UNCHANGED <<monitoring, session, wakeUp, applying, loanForm, viewState>>

RestResponses == {Response(st, json) : st \in RestStatuses, json \in BOOLEAN}

RestCall ==
    \E op \in RestOps, first \in RestResponses, refreshed \in BOOLEAN,
       second \in RestResponses :
        restCalled(op, first, refreshed, second)

RestNext == RestCall \/ restCompleted \/ restForgotten

RestSpec == RestInit /\ [][RestNext]_vars

\* ------------------------------------------------------------- CSV export
\* Text is a sequence of characters.
Quote == "\""

NA == <<"N", "/", "A">>

\* characters of the free-text fields
CsvChars == {"a", Quote, ","}

TextsUpTo(n) == UNION {[1..k -> CsvChars] : k \in 0..n}

\* an optional field: absent, or a text
Absent == [present |-> FALSE, text |-> <<>>]

Present(text) == [present |-> TRUE, text |-> text]

RECURSIVE Escaped(_)
\* text.replace(/"/g, '""')
Escaped(text) ==
    IF text = <<>> THEN <<>>
    ELSE (IF Head(text) = Quote THEN <<Quote, Quote>> ELSE <<Head(text)>>)
         \o Escaped(Tail(text))

\* `"${text}"`
Quoted(text) == <<Quote>> \o text \o <<Quote>>

\* `field || 'N/A'`
OrNA(field) == IF field.present /\ field.text # <<>> THEN field.text ELSE NA

\* generateCSV: the line of one covenant in the covenant table
CovenantLine(cov) ==
    Quoted(cov.title) \o <<",">> \o Quoted(cov.type) \o <<",">> \o
    Quoted(cov.dueDate) \o <<",">> \o Quoted(cov.status) \o <<",">> \o
    Quoted(OrNA(cov.threshold)) \o <<",">> \o Quoted(OrNA(cov.value)) \o <<",">> \o
    Quoted(Escaped(cov.description)) \o <<"\n">>

RECURSIVE ParsedFields(_, _, _, _)
\* the fields of the first line of a CSV text: fields are separated by commas, a
\* field in double quotes may hold commas, and a doubled double quote in it is one
\* double quote
ParsedFields(text, inQuotes, field, fields) ==
    IF text = <<>> THEN Append(fields, field)
    ELSE LET ch == Head(text)
             rest == Tail(text)
         IN  IF inQuotes
             THEN IF ch = Quote
                  THEN IF rest # <<>> /\ Head(rest) = Quote
                       THEN ParsedFields(Tail(rest), TRUE, Append(field, Quote), fields)
                       ELSE ParsedFields(rest, FALSE, field, fields)
                  ELSE ParsedFields(rest, TRUE, Append(field, ch), fields)
             ELSE CASE ch = Quote -> ParsedFields(rest, TRUE, field, fields)
                    [] ch = "," -> ParsedFields(rest, FALSE, <<>>, Append(fields, field))
                    [] ch = "\n" -> Append(fields, field)
                    [] OTHER -> ParsedFields(rest, FALSE, Append(field, ch), fields)

\* N/A read back as an absent field
FromNA(text) == IF text = NA THEN Absent ELSE Present(text)

\* the covenant read from a line of the covenant table (no covenant when the line
\* has not the table's seven columns)
ParsedCovenant(line) ==
    LET f == ParsedFields(line, FALSE, <<>>, <<>>)
    IN  IF Len(f) # 7 THEN <<>>
        ELSE <<[title |-> f[1], type |-> f[2], dueDate |-> f[3], status |-> f[4],
                threshold |-> FromNA(f[5]), value |-> FromNA(f[6]),
                description |-> f[7]]>>

\* the covenants exported: any title, threshold and value absent or one character
CsvCovenants ==
    [title : TextsUpTo(MaxFieldLen),
     type : {<<"F">>},
     dueDate : {<<"d">>},
     status : {<<"s">>},
     threshold : {Absent} \cup {Present(t) : t \in TextsUpTo(1) \ {<<>>}},
     value : {Absent} \cup {Present(t) : t \in TextsUpTo(1) \ {<<>>}},
     description : TextsUpTo(1)]

\* nothing else goes on while a function is studied
AppIdle ==
    MonitoringIdle /\ SessionIdle /\ WakeUpIdle /\ ApplyingIdle /\ LoanFormIdle
    /\ ViewStateIdle

CsvInit ==
    /\ AppIdle
    /\ \E cov \in CsvCovenants : args = <<cov>>
    /\ result = <<>>

\* the export button
generateCSV ==
    /\ result = <<>>
    /\ result' = <<[csv |-> CovenantLine(Args), covenant |-> <<>>]>>
    /\ UNCHANGED <<monitoring, session, wakeUp, applying, loanForm, args, viewState>>

\* the exported table is read back
csvParsed ==
    /\ result # <<>>
    /\ Outcome.covenant = <<>>
    /\ result' = <<[Outcome EXCEPT !.covenant = <<ParsedCovenant(Outcome.csv)>>]>>
    /\ UNCHANGED <<monitoring, session, wakeUp, applying, loanForm, args, viewState>>

CsvNext == generateCSV \/ csvParsed

CsvSpec == CsvInit /\ [][CsvNext]_vars

\* --------------------------------------------------------- AI text operations
AiOps == {"generateLoanSummary", "explainCovenantRisk"}

\* the AI call: it answers with text, answers without text, or raises an error
AiAnswers == {"text", "empty", "error"}

\* compliance scores on either side of the fallback summary's risk levels
SummaryScores == {100, 91, 90, 76, 75, 0}

\* what the fallback texts are made from: the loan's score, whether covenants are
\* At Risk or Breached, and the covenant's status
AiSubjects == [score : SummaryScores, attention : BOOLEAN, status : ComplianceStatus]

\* generateLoanSummary without an AI client: the text made locally
FallbackSummary(subject) ==
    [kind |-> "fallback",
     about |-> IF subject.score > 90 THEN "low"
                ELSE IF subject.score > 75 THEN "moderate" ELSE "elevated",
     attention |-> subject.attention]

\* explainCovenantRisk without an AI client: the explanation of the covenant's status
FallbackExplanation(subject) ==
    [kind |-> "fallback", about |-> subject.status, attention |-> FALSE]

\* "Summary unavailable." / "Explanation unavailable." and the messages of the catch
Unavailable(op) == [kind |-> "unavailable", about |-> op, attention |-> FALSE]

AiText == [kind |-> "ai", about |-> "response.text", attention |-> FALSE]

\* an operation whose catch throws the error again
GenerateTextRethrowing(op, configured, answer, subject) ==
    IF ~configured
    THEN Returned(IF op = "generateLoanSummary"
                  THEN FallbackSummary(subject) ELSE FallbackExplanation(subject))
    ELSE CASE answer = "text" -> Returned(AiText)
           [] answer = "empty" -> Returned(Unavailable(op))
           [] OTHER -> Thrown("Error")

\* generateLoanSummary, explainCovenantRisk: what the promise settles with
GenerateText(op, configured, answer, subject) ==
    IF ~configured
    THEN Returned(IF op = "generateLoanSummary"
                  THEN FallbackSummary(subject) ELSE FallbackExplanation(subject))
    ELSE CASE answer = "text" -> Returned(AiText)
           [] answer = "empty" -> Returned(Unavailable(op))
           [] OTHER -> Returned(Unavailable(op))

AiInit == AppIdle /\ PureIdle

\* the operation is called: it waits for its timer, or for the AI call
aiCalled(op, configured, answer, subject) ==
    /\ args = <<>>
    /\ args' = <<[op |-> op, configured |-> configured, answer |-> answer,
                  subject |-> subject]>>
    /\ UNCHANGED <<monitoring, session, wakeUp, applying, loanForm, result, viewState>>

\* the timer fires, or the AI call answers or raises its error
aiSettled ==
    /\ args # <<>>
    /\ result = <<>>
    /\ result' = <<GenerateText(Args.op, Args.configured, Args.answer, Args.subject)>>
    /\ UNCHANGED <<monitoring, session, wakeUp, applying, loanForm, args, viewState>>

\* the view shows the text
aiShown ==
    /\ result # <<>>
    /\ args' = <<>>
    /\ result' = <<>>
    /\ UNCHANGED <<monitoring, session, wakeUp, applying, loanForm, viewState>>

AiCall ==
    \E op \in AiOps, configured \in BOOLEAN, answer \in AiAnswers, subject \in AiSubjects :
        aiCalled(op, configured, answer, subject)

AiNext == AiCall \/ aiSettled \/ aiShown

\* timers fire and the AI call comes to an end
AiSpec == AiInit /\ [][AiNext]_vars /\ WF_vars(aiSettled)

\* ---------------------------------------------------------- risk predictions
CovenantTypes == {"Financial", "Reporting"}

\* a covenant's threshold: absent, the empty string, or a text
Thresholds == {NoVal, "", "3.0x"}

\* the covenants of the loan: covenant i has id i
RiskCovenants == [type : CovenantTypes, threshold : Thresholds, status : ComplianceStatus]

\* Math.random() in thousandths, for the two calls a branch makes: the ends of
\* [0, 1) and either side of 0.7
Rolls == {<<0, 0>>, <<999, 999>>, <<500, 700>>, <<500, 701>>}

\* Math.floor(Math.random() * n)
FloorOf(roll, n) == (roll * n) \div 1000

\* `covenant.type === 'Financial' && covenant.threshold` with any type
PredictedAnyType(cov) == cov.threshold \notin {NoVal, ""}

\* `covenant.type === 'Financial' && covenant.threshold`
Predicted(cov) == cov.type = "Financial" /\ cov.threshold \notin {NoVal, ""}

\* the branches that call Math.random
UsesRolls(cov) == Predicted(cov) /\ cov.status # "Breached"

\* the prediction pushed for covenant `id`
Prediction(id, cov, roll) ==
    LET made(probability, trend, date) ==
            [covenantId |-> id, threshold |-> cov.threshold, probability |-> probability,
             trend |-> trend, predictedBreachDate |-> date]
    IN  CASE cov.status = "Breached" -> made(100, "deteriorating", "Already breached")
          [] cov.status = "At Risk" ->
               made(FloorOf(roll[1], 30) + 60, "deteriorating",
                    IF FloorOf(roll[2], 4) + 1 > 2 THEN "months later" ELSE "months soon")
          [] cov.status = "Compliant" ->
               made(FloorOf(roll[1], 25), IF roll[2] > 700 THEN "improving" ELSE "stable", "")
          [] OTHER -> made(FloorOf(roll[1], 40) + 10, "stable", "")

RECURSIVE Predictions(_, _, _)
\* loan.covenants.forEach from covenant i on
Predictions(covs, rolls, i) ==
    IF i > Len(covs) THEN <<>>
    ELSE (IF Predicted(covs[i]) THEN <<Prediction(i, covs[i], rolls[i])>> ELSE <<>>)
         \o Predictions(covs, rolls, i + 1)

RiskInit ==
    /\ AppIdle
    /\ \E n \in 0..MaxRiskCovs : \E covs \in [1..n -> RiskCovenants] : args = <<covs>>
    /\ result = <<>>

\* the timer of generateRiskPredictions fires; rolls[i] are the random numbers drawn
\* for covenant i (none are drawn where the branch calls no Math.random)
generateRiskPredictions(rolls) ==
    /\ result = <<>>
    /\ \A i \in 1..Len(Args) : ~UsesRolls(Args[i]) => rolls[i] = <<0, 0>>
    /\ result' = <<Predictions(Args, rolls, 1)>>
    /\ UNCHANGED <<monitoring, session, wakeUp, applying, loanForm, args, viewState>>

\* the predictions are shown and asked for again
predictionsShown ==
    /\ result # <<>>
    /\ result' = <<>>
    /\ UNCHANGED <<monitoring, session, wakeUp, applying, loanForm, args, viewState>>

RiskNext ==
    \/ \E rolls \in [1..Len(Args) -> Rolls] : generateRiskPredictions(rolls)
    \/ predictionsShown

RiskSpec == RiskInit /\ [][RiskNext]_vars

\* ----------------------------------------------------- covenant explanation
\* s without its entry i
Without(s, i) == SubSeq(s, 1, i - 1) \o SubSeq(s, i + 1, Len(s))

\* the loan shown in the detail view: two covenants
ExplainedLoan ==
    [MonitoredLoan(1, 1, "At Risk") EXCEPT
        !.covenants = Append(@, MonitoredCovenant(2, "Breached"))]

\* what explainCovenantRisk(covenant, loan) resolves with: the text, made for this
\* covenant
Explanation(covenant, loan, configured, answer) ==
    [covenant |-> covenant.id,
     text |-> GenerateText("explainCovenantRisk", configured, answer,
                           [score |-> loan.complianceScore, attention |-> FALSE,
                            status |-> covenant.status]).value]

\* a covenant can be clicked whatever is awaited (MaxExplaining bounds the calls
\* awaited together)
ClickAllowed == Len(explaining) < MaxExplaining

\* handleCovenantClick up to its await: the covenant selected is deselected, another
\* one is selected and its explanation requested
handleCovenantClick(covenant) ==
    /\ IF selectedCovenant = covenant.id
       THEN /\ selectedCovenant' = 0
            /\ UNCHANGED <<loadingExplanation, aiExplanation, explaining>>
       ELSE /\ ClickAllowed
            /\ selectedCovenant' = covenant.id
            /\ loadingExplanation' = TRUE
            /\ aiExplanation' = <<>>
            /\ explaining' = Append(explaining, covenant)
    /\ UNCHANGED <<monitoring, session, wakeUp, pure, applying, loanForm, authForm, updating,
                   currentUser, extracting>>

\* the explanation awaited by click i arrives: it is shown, loading ends
explanationResolved(i, configured, answer) ==
    /\ i \in 1..Len(explaining)
    /\ aiExplanation' = <<Explanation(explaining[i], LocalLoan(1), configured, answer)>>
    /\ loadingExplanation' = FALSE
    /\ explaining' = Without(explaining, i)
    /\ UNCHANGED <<monitoring, session, wakeUp, pure, applying, loanForm, authForm, updating,
                   currentUser, selectedCovenant, extracting>>

\* the detail view of the loan, loaded
ExplainInit ==
    /\ srvLoans = <<ExplainedLoan>>
    /\ nextCovId = 3
    /\ ClientInitAt(Quota(0, 0, 0), "LOAN_DETAIL", LoadedLoans(<<ExplainedLoan>>, FALSE, <<>>))

ExplainNext ==
    \/ \E covenant \in Range(LocalLoan(1).covenants) : handleCovenantClick(covenant)
    \/ \E i \in 1..MaxExplaining, configured \in BOOLEAN, answer \in AiAnswers :
           explanationResolved(i, configured, answer)

ExplainSpec == ExplainInit /\ [][ExplainNext]_vars

\* ------------------------------------------------- document processed, by steps
\* documents the user can select
UploadedFiles == {"doc.pdf", "solar.pdf"}

\* handleProcessDocument up to its first await: the file and the target loan are
\* those of the render in which the button was clicked
processClicked ==
    /\ isUploadModalOpen
    /\ uploadProgress = "idle"
    /\ uploadingFile # NoVal
    /\ targetLoanIdForUpload # 0
    /\ Len(extracting) < MaxExtractions
    /\ uploadProgress' = "uploading"
    /\ extracting' = Append(extracting, [pc |-> "uploading", file |-> uploadingFile,
                                         loanId |-> targetLoanIdForUpload])
    /\ handlerResult' = Result("", "")
    /\ UNCHANGED <<backend, loans, covenantModal, statusModal, isUploadModalOpen,
                   uploadingFile, extractedDNA, targetLoanIdForUpload, quota, session,
                   wakeUp, pure, applying, loanForm, authForm, updating, currentUser,
                   explanationPanel>>

\* the oldest invocation waiting for the upload timer (timers of one delay fire in
\* the order in which they were set)
Uploading == {i \in 1..Len(extracting) : extracting[i].pc = "uploading"}

\* the upload timer fires: setUploadProgress('extracting'); extractLoanDNA is called
uploadTimer ==
    /\ Uploading # {}
    /\ LET i == CHOOSE j \in Uploading : \A k \in Uploading : j <= k
       IN  extracting' = [extracting EXCEPT ![i].pc = "extracting"]
    /\ uploadProgress' = "extracting"
    /\ UNCHANGED <<backend, loans, covenantModal, statusModal, isUploadModalOpen,
                   uploadingFile, extractedDNA, targetLoanIdForUpload, quota,
                   handlerResult, session, wakeUp, pure, applying, loanForm, authForm,
                   updating, currentUser, explanationPanel>>

\* extractLoanDNA of the oldest invocation resolves: setExtractedDNA(dna);
\* setUploadProgress('done')
extractionResolved ==
    /\ extracting # <<>>
    /\ extracting[1].pc = "extracting"
    /\ extractedDNA' = extractLoanDNA(extracting[1].file)
    /\ uploadProgress' = "done"
    /\ extracting' = Tail(extracting)
    /\ UNCHANGED <<backend, loans, covenantModal, statusModal, isUploadModalOpen,
                   uploadingFile, targetLoanIdForUpload, quota, handlerResult, session,
                   wakeUp, pure, applying, loanForm, authForm, updating, currentUser,
                   explanationPanel>>

\* the detail views of two loans, loaded; one extraction can be applied
ExtractInit ==
    /\ srvLoans = <<NewLoan(1), NewLoan(2)>>
    /\ nextCovId = 1
    /\ ClientInitAt(Quota(1, 0, 1), "LOAN_DETAIL",
                    LoadedLoans(<<NewLoan(1), NewLoan(2)>>, FALSE, <<>>))

ExtractNext ==
    \/ \E id \in LoanIds : openUploadModal(id)
    \/ closeUploadModal
    \/ \E f \in UploadedFiles : handleFileSelect(f)
    \/ processClicked
    \/ uploadTimer
    \/ extractionResolved
    \/ reupload
    \/ \E fail \in {"none", "dna", "load"} : handleApplyExtractedData(fail, 0)

ExtractSpec == ExtractInit /\ [][ExtractNext]_vars

\* ---------------------------------------------------------------- claims
Statuses(covs) == [i \in 1..Len(covs) |-> covs[i].status]

\* s = round(100 * k / n), halves rounded up, stated without division
IsRounded(s, k, n) == 2 * n * s - n <= 200 * k /\ 200 * k < 2 * n * s + n

NumCompliantEquivalent(covs) ==
    Cardinality({i \in 1..Len(covs) : covs[i].status \in {"Compliant", "Waived", "Upcoming"}})

ServerLoan(id) == srvLoans[CHOOSE i \in 1..Len(srvLoans) : srvLoans[i].id = id]

Submissions == {"handleSaveCovenant", "handleUpdateCovenantStatus", "handleApplyExtractedData"}

\* C1: after any sequence of covenant additions, status changes and extraction
\* applications, every loan the client holds with n > 0 covenants has
\* complianceScore = round(100 * k / n), k the number of its covenants that are
\* Compliant, Waived or Upcoming ([Compliant, At Risk, Waived, Upcoming] gives 75);
\* and when a submission completed without error that score is over the full
\* updated covenant set of the store.
C1_ScoreIsRatio ==
    /\ \A i \in 1..Len(loans) :
         LET covs == loans[i].covenants
         IN  /\ Len(covs) > 0 =>
                  IsRounded(loans[i].complianceScore, NumCompliantEquivalent(covs), Len(covs))
             /\ Statuses(covs) = <<"Compliant", "At Risk", "Waived", "Upcoming">> =>
                  loans[i].complianceScore = 75
    /\ handlerResult.op \in Submissions /\ handlerResult.err = "" =>
         /\ Len(loans) = Len(srvLoans)
         /\ \A i \in 1..Len(loans) :
              /\ loans[i].covenants = srvLoans[i].covenants
              /\ Len(loans[i].covenants) > 0 =>
                   IsRounded(loans[i].complianceScore,
                             NumCompliantEquivalent(srvLoans[i].covenants),
                             Len(srvLoans[i].covenants))

\* a status change has completed on a loan that holds extracted covenants,
\* and its score is strictly between 0 and 100
C1_Witness ==
    /\ handlerResult = Result("handleUpdateCovenantStatus", "")
    /\ \E i \in 1..Len(loans) :
         /\ Len(loans[i].covenants) >= Len(ExtractedCovenants)
         /\ loans[i].loanDNA
         /\ loans[i].complianceScore \notin {0, 100}

\* C2: for every covenant list (all five statuses, every size up to the bound) the
\* score the client holds is an integer in 0..100, and it is 100 for the empty list.
C2_ScoreInRange ==
    \A i \in 1..Len(loans) :
        /\ loans[i].complianceScore \in 0..100
        /\ loans[i].covenants = <<>> => loans[i].complianceScore = 100

\* the loan without covenants has been loaded with score 100
C2_Witness ==
    /\ handlerResult = Result("loadLoans", "")
    /\ \E i \in 1..Len(loans) :
         loans[i].covenants = <<>> /\ loans[i].complianceScore = 100

\* the example list of C1 has been loaded, with score 75
C1_Example ==
    \E i \in 1..Len(loans) :
        /\ Statuses(loans[i].covenants) = <<"Compliant", "At Risk", "Waived", "Upcoming">>
        /\ loans[i].complianceScore = 75

\* ---- status changes
LoanOf(store, id) == store[CHOOSE i \in 1..Len(store) : store[i].id = id]

CovenantsOf(store, id) ==
    IF id \in LoanIdsOf(store) THEN LoanOf(store, id).covenants ELSE <<>>

TimelineOf(store, id) ==
    IF id \in LoanIdsOf(store) THEN LoanOf(store, id).timelineEvents ELSE <<>>

AllCovenants(store) == UNION {Range(store[i].covenants) : i \in 1..Len(store)}

CovenantById(store, covId) == CHOOSE c \in AllCovenants(store) : c.id = covId

WaiverPopulated(c) ==
    c.waiverReason # NoVal /\ c.waiverDate # NoVal /\ c.waiverApprovedBy # NoVal

WaiverCleared(c) ==
    c.waiverReason = NoVal /\ c.waiverDate = NoVal /\ c.waiverApprovedBy = NoVal

StatusInputs ==
    ComplianceStatus \X CurrentValues \X WaiverReasons \X {"none", "update", "event", "load"}

\* the step is the status form's submission with inputs `in` (the submission closes
\* the form and records itself: the two conjuncts in front only order the evaluation)
StatusStep(in) ==
    /\ isStatusModalOpen /\ ~isStatusModalOpen'
    /\ handlerResult'.op = "handleUpdateCovenantStatus"
    /\ handleUpdateCovenantStatus(in[1], in[2], in[3], in[4])

\* the covenant named by the submission is in the store and its PATCH goes through
UpdateApplies(in) ==
    editingCovenant.covenant.id \in CovIdsOf(srvLoans) /\ in[4] # "update"

\* C3: a status change to Waived leaves the covenant with all three waiver fields
\* populated; a status change to any other status leaves all three cleared, whatever
\* the covenant's state before (in particular when it was Waived).
C3_WaiverFollowsNewStatus ==
    [][\A in \in StatusInputs :
         StatusStep(in) /\ UpdateApplies(in) =>
           LET c == CovenantById(srvLoans', editingCovenant.covenant.id)
           IN  IF in[1] = "Waived" THEN WaiverPopulated(c) ELSE WaiverCleared(c)]_vars

\* C4: in every reachable state every covenant, in the store and in the client's
\* list, has its waiver fields populated if and only if its status is Waived.
C4_WaiverIffWaived ==
    \A c \in AllCovenants(srvLoans) \cup AllCovenants(loans) :
        IF c.status = "Waived" THEN WaiverPopulated(c) ELSE WaiverCleared(c)

\* C5: a status change whose new status equals the covenant's status in the store
\* appends no timeline event to the loan; one that changes it appends exactly one.
C5_OneEventPerActualChange ==
    [][\A in \in StatusInputs :
         StatusStep(in) /\ UpdateApplies(in) =>
           LET prior == CovenantById(srvLoans, editingCovenant.covenant.id).status
               before == TimelineOf(srvLoans, editingCovenant.loanId)
               after == TimelineOf(srvLoans', editingCovenant.loanId)
           IN  IF in[1] = prior
               THEN after = before
               ELSE Len(after) = Len(before) + 1
                    /\ SubSeq(after, 1, Len(before)) = before]_vars

\* the event C6 expects for a change of covenant covId to newStatus
ExpectedEvent(covId, newStatus) ==
    [type |-> IF newStatus = "Waived" THEN "Waiver Granted" ELSE "Status Changed",
     relatedCovenantId |-> covId]

\* C6: whatever a status change appends to the loan's timeline is one event, of type
\* Waiver Granted if the new status is Waived and Status Changed otherwise, that
\* refers to the changed covenant; it is appended whenever the submitted status
\* differs from the one the form was opened with and no call fails; and a change
\* Compliant -> At Risk of a covenant without waiver leaves the waiver fields absent.
C6_EventTypeFollowsNewStatus ==
    [][\A in \in StatusInputs :
         StatusStep(in) =>
           LET covId == editingCovenant.covenant.id
               before == TimelineOf(srvLoans, editingCovenant.loanId)
               after == TimelineOf(srvLoans', editingCovenant.loanId)
               one == Append(before, ExpectedEvent(covId, in[1]))
           IN  /\ after = before \/ after = one
               /\ \A id \in LoanIdsOf(srvLoans) \ {editingCovenant.loanId} :
                    TimelineOf(srvLoans', id) = TimelineOf(srvLoans, id)
               /\ (/\ UpdateApplies(in)
                   /\ in[4] # "event"
                   /\ editingCovenant.loanId \in LoanIdsOf(srvLoans)
                   /\ editingCovenant.covenant.status # in[1]) => after = one
               /\ (/\ UpdateApplies(in)
                   /\ in[1] = "At Risk"
                   /\ CovenantById(srvLoans, covId).status = "Compliant"
                   /\ WaiverCleared(CovenantById(srvLoans, covId)))
                  => WaiverCleared(CovenantById(srvLoans', covId))]_vars

\* a status change to Waived has completed on a covenant whose status had changed
\* before: the loan's timeline ends with that Status Changed event and then the
\* Waiver Granted event of the covenant, which is Waived in the store
C6_Witness ==
    /\ handlerResult = Result("handleUpdateCovenantStatus", "")
    /\ \E i \in 1..Len(srvLoans) :
         LET tl == srvLoans[i].timelineEvents
         IN  /\ Len(tl) >= 2
             /\ tl[Len(tl) - 1].type = "Status Changed"
             /\ tl[Len(tl)].type = "Waiver Granted"
             /\ \E c \in Range(srvLoans[i].covenants) :
                  c.id = tl[Len(tl)].relatedCovenantId /\ c.status = "Waived"

\* C10: a status change that names a covenant absent from the store fails with a
\* NotFound error that is surfaced to the caller, and leaves the store unchanged.
C10_NotFoundSurfaced ==
    [][\A in \in StatusInputs :
         StatusStep(in) /\ in[4] # "update"
           /\ editingCovenant.covenant.id \notin CovIdsOf(srvLoans) =>
             /\ srvLoans' = srvLoans
             /\ handlerResult'.err = "NotFound"
             /\ handlerResult'.threw]_vars

\* the part of C10 about the store: nothing is modified and no event is appended
C10_StoreUnchanged ==
    [][\A in \in StatusInputs :
         StatusStep(in) /\ editingCovenant.covenant.id \notin CovIdsOf(srvLoans) =>
             /\ srvLoans' = srvLoans
             /\ handlerResult'.err \in {"NotFound", "RemoteFailure"}]_vars

\* a status change was submitted for a covenant that the store no longer holds
C10_Reached ==
    /\ handlerResult = Result("handleUpdateCovenantStatus", "NotFound")

\* ---- extraction
ApplyInputs ==
    ({"none", "dna", "uploaded", "added", "load"} \X {0})
    \cup ({"covenant"} \X (1..Len(ExtractedCovenants)))

\* the step is the application of the extraction result, with `in` naming the failing call
ApplyStep(in) ==
    /\ handlerResult'.op = "handleApplyExtractedData"
    /\ handleApplyExtractedData(in[1], in[2])

\* the covenants of `after` beyond those of `before`
Added(before, after) == SubSeq(after, Len(before) + 1, Len(after))

UploadedEvent == [type |-> "Document Uploaded", relatedCovenantId |-> 0]
AddedEvent == [type |-> "Covenant Added", relatedCovenantId |-> 0]

C8_OnlyAppendsUpcoming ==
    [][\A in \in ApplyInputs :
         ApplyStep(in) =>
           LET t == targetLoanIdForUpload
               before == CovenantsOf(srvLoans, t)
               after == CovenantsOf(srvLoans', t)
           IN  /\ Len(after) >= Len(before)
               /\ SubSeq(after, 1, Len(before)) = before
               /\ \A c \in Range(Added(before, after)) :
                    /\ c.status = "Upcoming"
                    /\ WaiverCleared(c)
                    /\ c.id \notin CovIdsOf(srvLoans)
               /\ Len(after) - Len(before) <= Len(extractedDNA.extractedCovenants)
               /\ (in[1] \notin {"dna", "covenant"} /\ t \in LoanIdsOf(srvLoans)) =>
                    Len(after) - Len(before) = Len(extractedDNA.extractedCovenants)
               /\ LoanIdsOf(srvLoans') = LoanIdsOf(srvLoans)
               /\ \A id \in LoanIdsOf(srvLoans) \ {t} :
                    CovenantsOf(srvLoans', id) = CovenantsOf(srvLoans, id)]_vars

\* an application has completed on a loan whose earlier covenant is not Upcoming:
\* that covenant is first and the proposed ones follow, all Upcoming
C8_Witness ==
    /\ handlerResult = Result("handleApplyExtractedData", "")
    /\ \E i \in 1..Len(srvLoans) :
         LET covs == srvLoans[i].covenants
         IN  /\ srvLoans[i].loanDNA
             /\ Len(covs) = 1 + Len(ExtractedCovenants)
             /\ covs[1].status = "At Risk"
             /\ \A j \in 2..Len(covs) : covs[j].status = "Upcoming"

C11_OneRefreshOneRetry ==
    \A c \in CallIds :
        LET k == calls[c]
        IN  /\ Len(k.sent) <= 2
            /\ k.refreshes <= 1
            /\ Len(k.sent) = 2 =>
                 k.responses[1] = 401 /\ k.refreshes = 1 /\ k.refreshed = "ok"
            /\ k.refreshes = 1 => k.responses[1] = 401 /\ k.held
            /\ (k.pc = "returned" /\ Len(k.sent) = 2) =>
                 Len(k.responses) = 2 /\ k.returned = k.responses[2]
            /\ (k.pc = "returned" /\ k.responses[1] = 401 /\ ~k.held) =>
                 k.refreshes = 0 /\ Len(k.sent) = 1 /\ k.returned = 401

\* a call was answered 401, refreshed the token, sent the request again, was
\* answered 401 again and returned that response
C11_Witness ==
    \E c \in CallIds :
        /\ calls[c].pc = "returned"
        /\ calls[c].responses = <<401, 401>>
        /\ calls[c].sent = <<"stored", "refreshed">>
        /\ calls[c].returned = 401

\* the step is the failure of the token refresh of call c
RefreshFails(c) == calls[c].pc = "refreshing" /\ calls'[c].refreshed = "failed"

\* C12: when an API call receives a 401 and the token refresh fails too, the session
\* is cleared (access token, refresh token, stored user) and the application no
\* longer shows the authenticated views.
C12_RefreshFailureEndsSession ==
    [][\A c \in CallIds :
         RefreshFails(c) =>
           /\ accessToken' = NoVal /\ refreshToken' = NoVal /\ storedUser' = NoVal
           /\ ~ShowsAuthenticatedViews']_vars

\* the part of C12 about the session: tokens and stored user are removed
C12_SessionCleared ==
    [][\A c \in CallIds :
         RefreshFails(c) =>
           accessToken' = NoVal /\ refreshToken' = NoVal /\ storedUser' = NoVal]_vars

\* a refresh has failed and the authenticated views are still shown, without tokens
C12_Reached ==
    /\ \E c \in CallIds : calls[c].refreshed = "failed"
    /\ accessToken = NoVal /\ refreshToken = NoVal
    /\ ShowsAuthenticatedViews

\* ---- backend wake-up
\* C13: the health poll polls again after every unsuccessful check until a check
\* succeeds, onReady is invoked only after a healthy check, and once a check has
\* succeeded (status 'ready') no further poll is started.
C13_NoPollAfterSuccess ==
    [][/\ (pollPc = "retryTimer" /\ ShowsWakeUp) => pollPc' \in {"retryTimer", "checking"}
       /\ (backendReady' /\ ~backendReady) => wakeStatus = "ready" /\ backendHealthy
       /\ wakeStatus = "ready" => ~(pollPc # "checking" /\ pollPc' = "checking")]_vars

\* the part of C13 about onReady and the re-poll after an unsuccessful check
C13_ReadyOnlyAfterHealthy ==
    [][/\ (pollPc = "retryTimer" /\ ShowsWakeUp) => pollPc' \in {"retryTimer", "checking"}
       /\ (backendReady' /\ ~backendReady) => wakeStatus = "ready" /\ backendHealthy]_vars

\* the part of C13 about progress: while the wake-up screen is shown, once the
\* backend answers healthy the application becomes backend-ready
C13_EventuallyReady == (ShowsWakeUp /\ backendHealthy) ~> backendReady

\* a check has succeeded and a poll is under way again
C13_Reached ==
    /\ ShowsWakeUp
    /\ wakeStatus = "ready"
    /\ pollPc = "checking"

\* the handleApplyExtractedData invocations that await a call
InFlight == {i \in Clicks : applying[i].pc \notin {"idle", "done"}}

\* C14: at no time are two mutations of the store in flight: at most one
\* apply-extraction submission awaits its calls
C14_OneMutationInFlight == Cardinality(InFlight) <= 1

\* C14, reached: two apply-extraction submissions of one extraction went through side
\* by side and the loan holds every extracted covenant twice
C14_Reached ==
    /\ \A i \in Clicks : applying[i].pc = "done" /\ applying[i].loanId = 1
    /\ handlerResult = Result("handleApplyExtractedData", "")
    /\ Len(srvLoans) = 1
    /\ Len(srvLoans[1].covenants) = 2 * Len(ExtractedCovenants)
    /\ Len(srvLoans[1].timelineEvents) = 4
\* s is a prefix of t
IsPrefix(s, t) == Len(s) <= Len(t) /\ SubSeq(t, 1, Len(s)) = s

\* C15: across every operation that does not delete the loan, the loan's timeline
\* before is a prefix of its timeline after, in the backend's store and in the
\* store the views read
C15_TimelineAppendOnly ==
    [][/\ \A id \in LoanIdsOf(srvLoans) \cap LoanIdsOf(srvLoans') :
             IsPrefix(TimelineOf(srvLoans, id), TimelineOf(srvLoans', id))
       /\ \A id \in LoanIdsOf(loans) \cap LoanIdsOf(loans') :
             IsPrefix(TimelineOf(loans, id), TimelineOf(loans', id))]_vars

\* C15, reached: a loan edit, a covenant add, a status change or an extraction
\* apply have extended the timeline the views read beyond the Loan Created event
C15_Witness ==
    /\ handlerResult.op \in {"handleSaveLoan", "handleSaveCovenant",
                              "handleUpdateCovenantStatus", "handleApplyExtractedData"}
    /\ handlerResult.err = ""
    /\ \E id \in LoanIdsOf(loans) :
           /\ Len(TimelineOf(loans, id)) >= 4
           /\ TimelineOf(loans, id)[1].type = "Loan Created"
           /\ TimelineOf(loans, id)[2].type = "Covenant Added"
\* C16: a status change that goes through sets the covenant's value to the supplied
\* value when it is not empty, and leaves the value the covenant had otherwise
C16_ValueSetOrRetained ==
    [][\A in \in StatusInputs :
         StatusStep(in) /\ UpdateApplies(in) =>
           LET id == editingCovenant.covenant.id
           IN  CovenantById(srvLoans', id).value =
                   IF in[2] # "" THEN in[2] ELSE CovenantById(srvLoans, id).value]_vars

\* C16, reached: a status change without a value went through, the status is new and
\* the views read the value the covenant had
C16_Witness ==
    /\ handlerResult = Result("handleUpdateCovenantStatus", "")
    /\ \E c \in AllCovenants(loans) :
           /\ c.value = "v0"
           /\ c.status = "Waived"
           /\ c.waiverReason = "r1"
    /\ Len(TimelineOf(loans, 1)) = 4
    /\ TimelineOf(loans, 1)[3].type = "Status Changed"
    /\ TimelineOf(loans, 1)[4].type = "Waiver Granted"
\* C17: an operation whose response is not 2xx ends in a thrown error and returns no
\* value to its caller
C17_NonOkThrows ==
    result # <<>> /\ Args.op \in RestOps /\ ~ResponseOk(Args.response.status) =>
        Outcome.threw /\ Outcome.value = NoVal

\* C17, reached: createCovenant was answered 400 with a JSON body and threw
C17_Witness ==
    /\ result # <<>>
    /\ Args.op = "createCovenant"
    /\ Args.response = Response(400, TRUE)
    /\ Outcome = Thrown("Error")
\* the exported covenant has been read back
ReadBack == result # <<>> /\ Outcome.covenant # <<>>

SameFields(a, b) ==
    /\ a.title = b.title /\ a.type = b.type /\ a.dueDate = b.dueDate
    /\ a.status = b.status /\ a.threshold = b.threshold /\ a.value = b.value

\* C18: the covenant read back from the exported table has the title, type, due date,
\* status, threshold and value of the covenant exported
C18_RoundTrip ==
    ReadBack => /\ Outcome.covenant[1] # <<>>
                /\ SameFields(Outcome.covenant[1][1], Args)

\* C18, reached: a title that is one double quote is not read back
C18_Reached ==
    /\ ReadBack
    /\ Args.title = <<Quote>>
    /\ Args.threshold = Absent
    /\ Outcome.covenant[1] = <<>> \/ Outcome.covenant[1][1].title # Args.title

\* C18: without double quotes in title, threshold and value, the covenant is read
\* back as exported
C18_QuoteFree ==
    /\ ReadBack
    /\ Quote \notin Range(Args.title) \cup Range(Args.threshold.text)
                                       \cup Range(Args.value.text)
    => /\ Outcome.covenant[1] # <<>>
       /\ SameFields(Outcome.covenant[1][1], Args)
AiTexts == {"fallback", "ai", "unavailable"}

\* C19: generateLoanSummary and explainCovenantRisk always complete, with a text and
\* not an error: the fallback text when no AI client is configured, an
\* unavailability message when the AI call raised an error
C19_AlwaysText ==
    /\ [](result # <<>> =>
             /\ ~Outcome.threw
             /\ Outcome.value.kind \in AiTexts
             /\ ~Args.configured => Outcome.value.kind = "fallback"
             /\ Args.configured /\ Args.answer = "error" =>
                    Outcome.value = Unavailable(Args.op))
    /\ (args # <<>>) ~> (result # <<>>)

\* C19, reached: the AI call of explainCovenantRisk raised an error and the
\* operation resolved with the unavailability message
C19_Witness ==
    /\ result # <<>>
    /\ Args.op = "explainCovenantRisk"
    /\ Args.configured /\ Args.answer = "error"
    /\ Outcome = Returned(Unavailable("explainCovenantRisk"))
\* the covenants that are Financial and have a threshold, in the loan's order
RECURSIVE FinancialWithThreshold(_, _)
FinancialWithThreshold(covs, i) ==
    IF i > Len(covs) THEN <<>>
    ELSE (IF covs[i].type = "Financial" /\ covs[i].threshold \notin {NoVal, ""}
          THEN <<i>> ELSE <<>>)
         \o FinancialWithThreshold(covs, i + 1)

Trends == {"improving", "stable", "deteriorating"}

\* C20: the predictions are one for each covenant that is Financial and has a
\* threshold and none for another covenant; each has an integer probability in 0..100
\* and a trend among improving, stable, deteriorating; a Breached covenant's has
\* probability 100 and trend deteriorating
C20_OnePredictionPerFinancial ==
    result # <<>> =>
        LET ps == Outcome
            expected == FinancialWithThreshold(Args, 1)
        IN  /\ Len(ps) = Len(expected)
            /\ \A k \in 1..Len(ps) :
                   /\ ps[k].covenantId = expected[k]
                   /\ ps[k].probability \in 0..100
                   /\ ps[k].trend \in Trends
                   /\ Args[ps[k].covenantId].status = "Breached" =>
                          ps[k].probability = 100 /\ ps[k].trend = "deteriorating"

\* C20, reached: of a covenant without a threshold and a Breached financial covenant
\* with one, the second alone is predicted, at 100 and deteriorating
C20_Witness ==
    /\ result # <<>>
    /\ Len(Args) = 2
    /\ Args[1] = [type |-> "Financial", threshold |-> NoVal, status |-> "At Risk"]
    /\ Args[2] = [type |-> "Financial", threshold |-> "3.0x", status |-> "Breached"]
    /\ Len(Outcome) = 1
    /\ Outcome[1].covenantId = 2
    /\ Outcome[1].probability = 100
    /\ Outcome[1].trend = "deteriorating"
LoggedIn == isAuthenticated /\ view = "DASHBOARD"

\* C21: the authentication form submitted with any credentials leads to the logged-in
\* state: authenticated flag true, view DASHBOARD; the end of the form's wait is
\* the login, whatever was submitted
C21_SubmitLeadsToLogin ==
    /\ authForm.loading ~> LoggedIn
    /\ [][authForm.loading /\ ~authForm'.loading => LoggedIn']_vars

\* C21, reached: logged in after submitting credentials of no account, without any
\* token
C21_Witness ==
    /\ LoggedIn
    /\ ~authForm.loading
    /\ authForm.credentials = "nobody"
    /\ accessToken = NoVal
\* the step is handleUpdateLoan's catch
UpdateFailed ==
    /\ updating # <<>> /\ updating' = <<>>
    /\ handlerResult'.op = "handleUpdateLoan"
    /\ handlerResult'.err \in {"RemoteFailure", "NotFound"}

CatchingHandlers ==
    {"handleSaveLoan", "handleSaveCovenant", "handleUpdateCovenantStatus",
     "handleApplyExtractedData", "handleDeleteLoan"}

\* a step of one of these handlers in which a remote call other than the
\* reload failed (a handler's step leaves a new result or uses a submission)
Swallowed(op) ==
    /\ <<handlerResult, quota>>' # <<handlerResult, quota>>
    /\ handlerResult'.op = op
    /\ handlerResult'.err \notin {"", "LoadFailure"}

TimelineLengths(store) == [i \in 1..Len(store) |-> Len(store[i].timelineEvents)]

\* C23: a remote-call failure inside the loan-save, covenant-save,
\* covenant-status-change, extraction-apply or loan-delete handler is caught and
\* not surfaced: the handler runs to completion, closes its modal and clears its
\* editing or upload state (delete navigates to the loan list), leaves the local
\* loan list as it was, and makes none of its remaining remote calls: when its
\* first call fails the backend is untouched, when a later call fails no event
\* that follows it is recorded.
C23_FailureSwallowed ==
    [][ /\ \A op \in CatchingHandlers : Swallowed(op) =>
               /\ ~handlerResult'.threw
               /\ loans' = loans
        /\ Swallowed("handleSaveLoan") => ~isLoanModalOpen' /\ editingLoan' = 0
        /\ Swallowed("handleSaveCovenant") => ~isCovenantModalOpen'
        /\ Swallowed("handleUpdateCovenantStatus") =>
               ~isStatusModalOpen' /\ editingCovenant' = NoEditing
        /\ Swallowed("handleApplyExtractedData") =>
               /\ ~isUploadModalOpen'
               /\ uploadingFile' = NoVal
               /\ extractedDNA' = NoDNA
               /\ uploadProgress' = "idle"
        /\ Swallowed("handleDeleteLoan") => view' = "LOAN_LIST"
        /\ Swallowed("handleSaveLoan") /\ handleSaveLoan("loan") => srvLoans' = srvLoans
        /\ Swallowed("handleSaveCovenant") /\ handleSaveCovenant("covenant") =>
               srvLoans' = srvLoans
        /\ (/\ Swallowed("handleUpdateCovenantStatus")
            /\ \E st \in ComplianceStatus, v \in CurrentValues, r \in WaiverReasons :
                   handleUpdateCovenantStatus(st, v, r, "update"))
           => srvLoans' = srvLoans
        /\ Swallowed("handleApplyExtractedData") /\ handleApplyExtractedData("dna", 0) =>
               srvLoans' = srvLoans
        /\ (/\ Swallowed("handleDeleteLoan")
            /\ \E id \in LoanIds : handleDeleteLoan(id, "delete"))
           => srvLoans' = srvLoans
        /\ (/\ \E op \in CatchingHandlers : Swallowed(op)
            /\ \/ handleSaveLoan("event")
               \/ handleSaveCovenant("event")
               \/ \E st \in ComplianceStatus, v \in CurrentValues, r \in WaiverReasons :
                      handleUpdateCovenantStatus(st, v, r, "event")
               \/ handleApplyExtractedData("uploaded", 0)
               \/ \E k \in 1..Len(ExtractedCovenants) : handleApplyExtractedData("covenant", k))
           => TimelineLengths(srvLoans') = TimelineLengths(srvLoans)
       ]_vars

\* a failed delete has left the detail view for the loan list with the loan
\* still held
C23_Witness ==
    /\ handlerResult.op = "handleDeleteLoan"
    /\ handlerResult.err = "RemoteFailure"
    /\ view = "LOAN_LIST"
    /\ Len(loans) = 1


\* C24: after logout the local loan list is empty and the current user null, and
\* they stay so until the next login, however logout interleaves with a load of
\* the loan list started before it and completing after it: while nobody is
\* logged in no loan and no user is held.
C24_NothingHeldAfterLogout ==
    ~isAuthenticated => loans = <<>> /\ currentUser = NoVal

\* a load answered after the logout that followed its start
C24_LoadAnsweredAfterLogout ==
    /\ ~isAuthenticated
    /\ view = "AUTH"
    /\ \E c \in CallIds : calls[c].pc = "done" /\ calls[c].returned = 200

\* C25: with two authenticated calls in flight that both receive 401, a refresh
\* that succeeded for one is never undone by the other: once some refresh has
\* stored new tokens, the stored access and refresh tokens remain set in every
\* step that is not a logout.
C25_RefreshNotUndone ==
    [][(/\ \E c \in CallIds : calls[c].refreshed = "ok"
        /\ accessToken # NoVal
        /\ refreshToken # NoVal
        /\ ~(isAuthenticated /\ ~isAuthenticated'))
       => accessToken' # NoVal /\ refreshToken' # NoVal]_vars

\* both calls were answered 401, the refresh of one succeeded, that of the other
\* failed after it, and nobody logged out
C25_Undone ==
    /\ isAuthenticated
    /\ \A c \in CallIds : calls[c].responses # <<>> /\ calls[c].responses[1] = 401
    /\ \E c \in CallIds : calls[c].refreshed = "ok"
    /\ \E c \in CallIds : calls[c].refreshed = "failed"
    /\ accessToken = NoVal
    /\ refreshToken = NoVal

\* C26: in the loan detail view, whenever a covenant is selected and the
\* explanation is not loading, the explanation displayed is the one generated for
\* the covenant selected, whatever the order in which explanation requests complete.
C26_ExplanationOfSelected ==
    selectedCovenant # 0 /\ ~loadingExplanation =>
        aiExplanation # <<>> /\ aiExplanation[1].covenant = selectedCovenant

\* an explanation has arrived for a covenant clicked before the one selected,
\* whose own explanation is still awaited
C26_Overtaken ==
    /\ selectedCovenant # 0
    /\ ~loadingExplanation
    /\ aiExplanation # <<>>
    /\ \E i \in 1..Len(explaining) : explaining[i].id = selectedCovenant

\* C27: in the upload flow, whenever uploadProgress is 'done' the extraction held
\* is not null and was extracted from the file selected now, for the loan targeted
\* now, also when the modal is closed, reopened or a new file is selected while an
\* earlier extraction is awaited; so Apply never applies an extraction made for
\* another file or loan.
C27_DoneHoldsOwnExtraction ==
    [][uploadProgress' = "done" =>
          /\ extractedDNA'.present
          /\ extractedDNA'.sourceDocument = uploadingFile'
          /\ uploadProgress # "done" =>
                 /\ extracting # <<>>
                 /\ extracting[1].loanId = targetLoanIdForUpload']_vars

\* the modal, reopened for another loan with another file selected, shows as done
\* the extraction of the file processed before it was closed
C27_StaleExtraction ==
    /\ isUploadModalOpen
    /\ uploadProgress = "done"
    /\ extractedDNA.present
    /\ uploadingFile # NoVal
    /\ extractedDNA.sourceDocument # uploadingFile
    /\ extracting = <<>>

\* C28: the authenticated views are displayed only if the view is not LANDING, the
\* backend is ready and the authenticated flag is true; and once the backend is
\* ready it never becomes not ready again.
C28_AuthenticatedViewsGated ==
    /\ [](Rendered = "Authenticated" =>
             view # "LANDING" /\ backendReady /\ isAuthenticated)
    /\ [][backendReady => backendReady']_vars

\* the authenticated views are displayed after the wake-up screen reported the
\* backend ready
C28_Witness ==
    /\ Rendered = "Authenticated"
    /\ wakeStatus = "ready"

\* the calls of handleSaveLoan that can fail
SaveLoanFailures == {"none", "loan", "event", "load"}

\* C29: saving an edit of an existing loan records exactly one Amendment Made
\* event on that loan, and only when the update went through (no event when the
\* update fails or the loan is gone; none recorded when the event request itself
\* fails); saving a new loan requests no timeline event: the timelines of the
\* loans held are untouched and the new loan has the backend's Loan Created event
\* only.
C29_OneAmendmentAfterUpdate ==
    [][\A fail \in SaveLoanFailures :
         handleSaveLoan(fail) =>
           IF editingLoan # 0
           THEN LET updated == fail # "loan" /\ editingLoan \in LoanIdsOf(srvLoans)
                    before == TimelineOf(srvLoans, editingLoan)
                IN  /\ TimelineOf(srvLoans', editingLoan) =
                           IF updated /\ fail # "event"
                           THEN Append(before, [type |-> "Amendment Made",
                                                relatedCovenantId |-> 0])
                           ELSE before
                    /\ \A id \in LoanIdsOf(srvLoans) \ {editingLoan} :
                           TimelineOf(srvLoans', id) = TimelineOf(srvLoans, id)
           ELSE /\ \A id \in LoanIdsOf(srvLoans) :
                       TimelineOf(srvLoans', id) = TimelineOf(srvLoans, id)
                /\ \A id \in LoanIdsOf(srvLoans') \ LoanIdsOf(srvLoans) :
                       TimelineOf(srvLoans', id) =
                           <<[type |-> "Loan Created", relatedCovenantId |-> 0]>>]_vars

\* an edit of the monitored loan was saved: its timeline ends with the amendment
C29_Witness ==
    /\ handlerResult = Result("handleSaveLoan", "")
    /\ 1 \in LoanIdsOf(srvLoans)
    /\ TimelineOf(srvLoans, 1)[Len(TimelineOf(srvLoans, 1))].type = "Amendment Made"
    /\ ~isLoanModalOpen

\* the calls of handleSaveCovenant that can fail
SaveCovenantFailures == {"none", "covenant", "event", "load"}

\* C30: adding a covenant creates exactly one covenant, with status Upcoming, on
\* the loan targeted, and then records exactly one Covenant Added event whose
\* related covenant is the covenant created; when the creation fails no event is
\* recorded; nothing is created on another loan, and the handler does nothing
\* without a targeted loan.
C30_OneCovenantOneEvent ==
    [][\A fail \in SaveCovenantFailures :
         handleSaveCovenant(fail) =>
           LET t == targetLoanIdForCovenant
               created == fail # "covenant" /\ t \in LoanIdsOf(srvLoans)
               covsBefore == CovenantsOf(srvLoans, t)
               covsAfter == CovenantsOf(srvLoans', t)
           IN  /\ t # 0
               /\ IF created
                  THEN /\ Len(covsAfter) = Len(covsBefore) + 1
                       /\ IsPrefix(covsBefore, covsAfter)
                       /\ covsAfter[Len(covsAfter)].status = "Upcoming"
                       /\ covsAfter[Len(covsAfter)].id \notin CovIdsOf(srvLoans)
                  ELSE srvLoans' = srvLoans
               /\ TimelineOf(srvLoans', t) =
                      IF created /\ fail # "event"
                      THEN Append(TimelineOf(srvLoans, t),
                                  [type |-> "Covenant Added",
                                   relatedCovenantId |-> covsAfter[Len(covsAfter)].id])
                      ELSE TimelineOf(srvLoans, t)
               /\ \A i \in 1..Len(srvLoans) :
                      srvLoans[i].id # t => srvLoans'[i] = srvLoans[i]
               /\ Len(srvLoans') = Len(srvLoans)]_vars

\* a covenant was added to the monitored loan: its newest covenant is Upcoming and
\* its newest event is the addition of that covenant
C30_Witness ==
    /\ handlerResult = Result("handleSaveCovenant", "")
    /\ 1 \in LoanIdsOf(srvLoans)
    /\ LET covs == CovenantsOf(srvLoans, 1)
           events == TimelineOf(srvLoans, 1)
       IN  /\ Len(covs) = 2
           /\ covs[2].status = "Upcoming"
           /\ events[Len(events)] =
                  [type |-> "Covenant Added", relatedCovenantId |-> covs[2].id]

====
